---- MODULE Spec2Model ----
(***************************************************************************)
(* A model of tiny-bench: the binary format of SamplingData (output/ser.rs), *)
(* the iteration scheduler (output/analysis/criterion/mod.rs), the          *)
(* benchmark pipeline (benching.rs), the comparing reporter                 *)
(* (output/mod.rs) and the two-slot result store (output/disk.rs).          *)
(*                                                                         *)
(* Numbers.  u64 and u128 values are naturals.  TLC's integers are 32 bits  *)
(* wide, so a decoded little-endian value that does not fit the range the   *)
(* model computes in is kept as its bytes, [wide |-> bytes]; the bytes are  *)
(* real bytes (0..255) and the field widths are the program's (8 and 16).   *)
(* f64 values are exact rationals [num, den]; rounding is not modelled.     *)
(***************************************************************************)
EXTENDS Integers, Sequences, FiniteSets, TLC

VARIABLES
    ser_in,      \* SerSpec: the SamplingData handed to ser_sampling_data
    ser_buf,     \* SerSpec: the byte buffer (serialized, then possibly damaged)
    ser_stage,   \* SerSpec: "fresh" | "serialized" | "damaged" | "decoded"
    ser_ret,     \* SerSpec: what try_de_sampling_data did with ser_buf
    sched_in,    \* SchedSpec: the arguments of calculate_iterations
    sched_ret,   \* SchedSpec: its result, or NoValue before the call
    ana_in,      \* AnalysisSpec: the analysis function called and its arguments
    ana_ret,     \* AnalysisSpec: its result, or NoValue before the call
    disk,        \* the result store: label -> (file name -> bytes)
    store_log,   \* DiskSpec: the writes made so far, oldest first
    store_ret,   \* DiskSpec: the last read and what it returned
    writers,     \* RaceSpec: the try_write calls in progress and their steps
    warm,        \* WarmUpSpec: a run_warm_up call: its arguments and locals
    timed,       \* TimedSpec: a TimedIterator, its consumer and its output
    suite,       \* Spec: which program runs: the name of its set of bench calls
    budget,      \* Spec: how many invocations the behaviour is followed for
    pc,          \* Spec: where the benchmark invocation is
    inv,         \* Spec: the number of invocations started
    bench,       \* Spec: the invocation's arguments: label, cfg, variant, costs
    clock,       \* Spec: the monotonic clock, in ns
    wu,          \* Spec: run_warm_up's elapsed, iterations, run_iterations
    iters,       \* Spec: the schedule and total_iters, once calculated
    run_st,      \* Spec: the sampling run's loop state
    sampling_data, \* Spec: the SamplingData the run returned
    calls,       \* Spec: invocations of work and setup, per phase (history)
    trace,       \* Spec: the steps of the invocation, in order (history)
    report,      \* Spec: what the output printed
    author       \* Spec: the invocation that wrote each label's current file (history)

serVars   == <<ser_in, ser_buf, ser_stage, ser_ret>>
schedVars == <<sched_in, sched_ret>>
storeVars == <<store_log, store_ret, writers>>
anaVars   == <<ana_in, ana_ret>>
loopVars  == <<warm, timed>>
benchVars == <<suite, budget, pc, inv, bench, clock, wu, iters, run_st, sampling_data, calls,
               trace, report, author>>
vars      == <<ser_in, ser_buf, ser_stage, ser_ret, sched_in, sched_ret,
               ana_in, ana_ret,
               disk, store_log, store_ret, writers, suite, budget, pc, inv, bench, clock, wu, iters,
               run_st, sampling_data, calls, trace, report, author, warm, timed>>

NoValue == [tag |-> "None"]

(***************************************************************************)
(* Bounds of the model.                                                    *)
(***************************************************************************)
MaxLen      == 2    \* longest samples / times sequence handed to the serializer
MaxSamples  == 5    \* largest num_samples handed to the scheduler
MaxTargetNs == 12   \* target times 0..MaxTargetNs (and the documented 10000)
MaxCostDen  == 2    \* mean costs num/den with den in 1..MaxCostDen
MaxWrites   == 3    \* DiskSpec: writes made in one behaviour
MaxInvocations == 1 \* Spec: benchmark invocations made in one behaviour
MaxSeries   == 3    \* SeriesSpec: benchmark invocations made in one behaviour
MaxNumSamples == 2  \* Spec: cfg.num_samples is in 1..MaxNumSamples
MaxWarmBatch == 4   \* Spec: run_warm_up is followed up to batches of this size
SetupCost   == 1    \* Spec: one call of setup takes this many ns
MaxWuElapsed == 4   \* ItersSpec: the warm-up took 0..MaxWuElapsed ns
MaxDist     == 3    \* AnalysisSpec: a t distribution has 0..MaxDist values
MaxResamples == 2   \* AnalysisSpec: num_resamples is 0..MaxResamples
MaxLabelLen == 2    \* AnalysisSpec: a label has 0..MaxLabelLen characters
MaxNones    == 2    \* TimedSpec: calls of next() that find the iterator drained
RunIterationsBits == 4 \* WarmUpSpec: the width of run_iterations (u64 in the program)
MaxWorkCost == 2    \* WarmUpSpec: one call of the closure takes 0..MaxWorkCost ns

(***************************************************************************)
(* Results: Ok(v), Err(msg), and the two ways a call can end without       *)
(* returning: a panic, and the abort of a failed allocation.               *)
(***************************************************************************)
Ok(v)      == [tag |-> "Ok", val |-> v]
Err(m)     == [tag |-> "Err", msg |-> m]
Panic(m)   == [tag |-> "Panic", msg |-> m]
Abort(m)   == [tag |-> "Abort", msg |-> m]

SamplingData(s, t) == [samples |-> s, times |-> t]

(***************************************************************************)
(* Little-endian bytes.                                                    *)
(***************************************************************************)
RECURSIVE to_be_bytes(_, _)
\* The bytes of v with the most significant one first.
to_be_bytes(v, width) ==
    IF width = 0 THEN <<>>
    ELSE Append(to_be_bytes(v \div 256, width - 1), v % 256)

RECURSIVE to_le_bytes(_, _)
to_le_bytes(v, width) ==
    IF width = 0 THEN <<>>
    ELSE <<v % 256>> \o to_le_bytes(v \div 256, width - 1)

\* The value of the bytes is below 2^24: every byte from the fourth on is 0.
FitsModel(bytes) == \A i \in 4..Len(bytes) : bytes[i] = 0

RECURSIVE LeValue(_)
LeValue(bytes) ==
    IF bytes = <<>> THEN 0 ELSE bytes[1] + 256 * LeValue(Tail(bytes))

from_le_bytes(bytes) ==
    IF FitsModel(bytes) THEN LeValue(SubSeq(bytes, 1, 3)) ELSE [wide |-> bytes]

RECURSIVE Flatten(_)
Flatten(seqs) ==
    IF seqs = <<>> THEN <<>> ELSE Head(seqs) \o Flatten(Tail(seqs))

\* A serializer that writes the elapsed times 8 bytes wide, like the counts.
ser_sampling_data_narrow_times(data) ==
    LET len == Len(data.samples) IN
    to_le_bytes(len, 8)
      \o Flatten([i \in 1..Len(data.samples) |->
                    to_le_bytes(data.samples[i], 8)])
      \o Flatten([i \in 1..Len(data.times) |->
                    to_le_bytes(data.times[i], 8)])

ser_sampling_data(data) ==
    LET len == Len(data.samples) IN
    to_le_bytes(len, 8)
      \o Flatten([i \in 1..Len(data.samples) |->
                    to_le_bytes(data.samples[i], 8)])
      \o Flatten([i \in 1..Len(data.times) |->
                    to_le_bytes(data.times[i], 16)])

\* Vec::with_capacity(len) panics with "capacity overflow" when
\* len * elem_size exceeds isize::MAX = 2^63 - 1, that is when
\* len >= (128 / elem_size) * 2^56: the top byte of len decides.
CapacityOverflow(len_bytes, elem_size) == len_bytes[8] >= 128 \div elem_size

\* Vec::with_capacity(len) for elements of elem_size bytes: it panics on a
\* capacity overflow; a request beyond the range of the model (2^24 elements
\* and more) is granted or aborts the process, as the allocator decides.
WithCapacity(len_bytes, elem_size) ==
    IF CapacityOverflow(len_bytes, elem_size) THEN {"panic"}
    ELSE IF FitsModel(len_bytes) THEN {"ok"}
    ELSE {"ok", "abort"}

AllocEnd(outcomes) ==
    (IF "panic" \in outcomes THEN {Panic("capacity overflow")} ELSE {})
      \cup (IF "abort" \in outcomes THEN {Abort("memory allocation failed")} ELSE {})

\* The checks and the decoding loop that follow the two allocations.
DecodeChecked(buf, len_bytes) ==
    IF ~FitsModel(len_bytes)
    THEN \* 2^24 <= len < 2^59: 8 + 24 * len is the length of no model buffer
         Err("unexpected length")
    ELSE
      LET len == from_le_bytes(len_bytes)
          expected_total_len == 8 + len * 16 + len * 8
      IN IF Len(buf) # expected_total_len THEN Err("unexpected length")
         ELSE Ok(SamplingData(
                 [i \in 1..len |->
                    from_le_bytes(SubSeq(buf, 8 + (i - 1) * 8 + 1,
                                              8 + (i - 1) * 8 + 8))],
                 [i \in 1..len |->
                    from_le_bytes(SubSeq(buf, 8 + len * 8 + (i - 1) * 16 + 1,
                                              8 + len * 8 + (i - 1) * 16 + 16))]))

\* The outcomes of try_de_sampling_data(buf): a set, because of WithCapacity.
try_de_sampling_data(buf) ==
    LET buf_len == Len(buf) IN
    IF buf_len < 8 THEN {Err("length too short")}
    ELSE
      LET len_bytes == SubSeq(buf, 1, 8)
          samples_vec == WithCapacity(len_bytes, 8)
          times_vec == WithCapacity(len_bytes, 16)
      IN AllocEnd(samples_vec)
           \cup (IF "ok" \in samples_vec
                 THEN AllocEnd(times_vec)
                        \cup (IF "ok" \in times_vec
                              THEN {DecodeChecked(buf, len_bytes)} ELSE {})
                 ELSE {})

(***************************************************************************)
(* Labels are sequences of character codes.                                *)
(***************************************************************************)
Anonymous == <<97, 110, 111, 110, 121, 109, 111, 117, 115>>   \* "anonymous"
TestLabel == <<108, 97, 98, 101, 108>>                        \* "label"

StoreLabels == {TestLabel, Anonymous}

\* std::path::is_separator on a unix target: '/'.
is_separator(ch) == ch = 47

ContainsSeparator(label) == \E i \in 1..Len(label) : is_separator(label[i])

(***************************************************************************)
(* The result store.  A label's directory is a function from the names of  *)
(* the files in it to their bytes.  What the file system does to a call is *)
(* the call's env: whether the result directory resolves, whether the      *)
(* metadata lookup and the rename succeed, and how the write ends.         *)
(***************************************************************************)
CURRENT_SAMPLE == "current-sample"
OLD_SAMPLE     == "old-sample"

EmptyDir == [f \in {} |-> <<>>]

RemoveFile(dir, name) == [f \in DOMAIN dir \ {name} |-> dir[f]]

PutFile(dir, name, bytes) ==
    [f \in DOMAIN dir \cup {name} |-> IF f = name THEN bytes ELSE dir[f]]

\* std::fs::metadata(path).is_ok()
metadata_is_ok(dir, name, env) == name \in DOMAIN dir /\ env.meta

\* std::fs::rename(from, to): replaces to, removes from; or fails and changes nothing.
fs_rename(dir, from, to, env) ==
    IF env.rename THEN PutFile(RemoveFile(dir, from), to, dir[from]) ELSE dir

\* std::fs::write(path, data) creates or truncates the file, then writes all of
\* data: it fails before the file is touched, or after the truncation with
\* nothing or only a prefix of data written.
fs_write(dir, name, data, env) ==
    CASE env.write = "ok"     -> PutFile(dir, name, data)
      [] env.write = "denied" -> dir
      [] env.write = "empty"  -> PutFile(dir, name, <<>>)
      [] env.write = "cut"    -> PutFile(dir, name, SubSeq(data, 1, 12))

AllWriteEnvs ==
    [dir : BOOLEAN, meta : BOOLEAN, rename : BOOLEAN,
     write : {"ok", "denied", "empty", "cut"}]

\* A call that is not made has no result: after a failed call that ends
\* try_write or skips the rename, the later results are written as successes.
WriteEnvs ==
    {e \in AllWriteEnvs :
        /\ ~e.dir => (e.meta /\ e.rename /\ e.write = "ok")
        /\ ~e.meta => e.rename}

ReadEnvs == {e \in [dir : BOOLEAN, read : BOOLEAN] : ~e.dir => e.read}

\* A try_write that writes the new data before it rotates.
try_write_writes_first(store, label, data, current_file_name, old_file_name, env) ==
    IF ContainsSeparator(label) \/ ~env.dir
    THEN [disk |-> store, ret |-> Err("cannot write"), warned |-> FALSE]
    ELSE
      LET exists == metadata_is_ok(store[label], current_file_name, env)
          written == fs_write(store[label], current_file_name, data, env)
          rotated == IF exists /\ current_file_name \in DOMAIN written
                     THEN fs_rename(written, current_file_name, old_file_name, env)
                     ELSE written
      IN [disk |-> [store EXCEPT ![label] = rotated],
          ret |-> IF env.write = "ok" THEN Ok("unit")
                  ELSE Err("Failed to write benchmark-data"),
          warned |-> exists /\ ~env.rename]

\* A try_write that gives up when it cannot move the current file.
try_write_rename_or_fail(store, label, data, current_file_name, old_file_name, env) ==
    IF ContainsSeparator(label) \/ ~env.dir
    THEN [disk |-> store, ret |-> Err("cannot write"), warned |-> FALSE]
    ELSE
      LET exists == metadata_is_ok(store[label], current_file_name, env) IN
      IF exists /\ ~env.rename
      THEN [disk |-> store, ret |-> Err("Failed to move old sample"), warned |-> TRUE]
      ELSE
        LET rotated == IF exists
                       THEN fs_rename(store[label], current_file_name,
                                      old_file_name, env)
                       ELSE store[label]
        IN [disk |-> [store EXCEPT ![label] =
                        fs_write(rotated, current_file_name, data, env)],
            ret |-> IF env.write = "ok" THEN Ok("unit")
                    ELSE Err("Failed to write benchmark-data"),
            warned |-> FALSE]

\* try_write: the store after the call, what it returned, and whether the
\* "Failed to move old sample" line was printed.
try_write(store, label, data, current_file_name, old_file_name, env) ==
    IF ContainsSeparator(label)
    THEN [disk |-> store, ret |-> Err("Label contains a path separator"),
          warned |-> FALSE]
    ELSE IF ~env.dir
    THEN [disk |-> store, ret |-> Err("Failed to create output directory"),
          warned |-> FALSE]
    ELSE
      LET exists == metadata_is_ok(store[label], current_file_name, env)
          rotated == IF exists
                     THEN fs_rename(store[label], current_file_name,
                                    old_file_name, env)
                     ELSE store[label]
          written == fs_write(rotated, current_file_name, data, env)
      IN [disk |-> [store EXCEPT ![label] = written],
          ret |-> IF env.write = "ok" THEN Ok("unit")
                  ELSE Err("Failed to write benchmark-data"),
          warned |-> exists /\ ~env.rename]

\* A try_read that reads the old slot.
try_read_old_slot(store, label, current_file_name, env) ==
    IF ContainsSeparator(label) \/ ~env.dir THEN Err("cannot read")
    ELSE IF OLD_SAMPLE \notin DOMAIN store[label] THEN Ok(NoValue)
    ELSE IF ~env.read THEN Err("Failed to read file")
    ELSE Ok([tag |-> "Some", val |-> store[label][OLD_SAMPLE]])

try_read(store, label, current_file_name, env) ==
    IF ContainsSeparator(label)
    THEN Err("Label contains a path separator")
    ELSE IF ~env.dir THEN Err("Failed to create output directory")
    ELSE IF current_file_name \notin DOMAIN store[label]
    THEN Ok(NoValue)                                  \* ErrorKind::NotFound
    ELSE IF ~env.read THEN Err("Failed to read file")
    ELSE Ok([tag |-> "Some", val |-> store[label][current_file_name]])

Some(v) == [tag |-> "Some", val |-> v]

\* A read of the last sampling that looks in the old slot.
try_read_last_simpling_previous(store, label, env) ==
    LET maybe_data == try_read(store, label, OLD_SAMPLE, env) IN
    IF maybe_data.tag = "Err" THEN {maybe_data}
    ELSE IF maybe_data.val = NoValue THEN {Ok(NoValue)}
    ELSE {IF de.tag = "Ok" THEN Ok(Some(de.val)) ELSE de :
             de \in try_de_sampling_data(maybe_data.val.val)}

\* The outcomes of try_read_last_simpling: the `?` passes try_read's and
\* try_de_sampling_data's errors on; a panic or abort ends the call.
try_read_last_simpling(store, label, env) ==
    LET maybe_data == try_read(store, label, CURRENT_SAMPLE, env) IN
    IF maybe_data.tag = "Err" THEN {maybe_data}
    ELSE IF maybe_data.val = NoValue THEN {Ok(NoValue)}
    ELSE {IF de.tag = "Ok" THEN Ok(Some(de.val)) ELSE de :
             de \in try_de_sampling_data(maybe_data.val.val)}

\* try_write_last_simpling returns nothing: a failed write is only printed.
try_write_last_simpling(store, label, data, env) ==
    LET w == try_write(store, label, ser_sampling_data(data),
                       CURRENT_SAMPLE, OLD_SAMPLE, env)
    IN [disk |-> w.disk, wrote |-> w.ret.tag = "Ok",
        printed |-> (IF w.ret.tag = "Err"
                     THEN {"Failed to write sampling data"} ELSE {})
                    \cup (IF w.warned THEN {"Failed to move old sample"} ELSE {})]

(***************************************************************************)
(* DiskSpec: a client of the store writes and reads sampling data under    *)
(* one label, as tests::can_dump_and_read_samples does, on a file system   *)
(* that may fail any step.                                                 *)
(***************************************************************************)
StoreDatas == {SamplingData(<<1>>, <<6>>), SamplingData(<<5>>, <<10>>)}

\* The parts of the state a specification does not use stay idle.
SchedIdle == sched_in = NoValue /\ sched_ret = NoValue
AnaIdle   == ana_in = NoValue /\ ana_ret = NoValue
SerIdle   == ser_in = NoValue /\ ser_buf = <<>> /\ ser_stage = "idle" /\ ser_ret = NoValue

NoCalls == [warm_up |-> 0, run |-> 0, setup_warm_up |-> 0, setup_run |-> 0]

NoAuthor == [by |-> 0, data |-> NoValue]

\* No invocation has started: the state of a fresh process.
NotStarted ==
    /\ pc = "idle"
    /\ inv = 0
    /\ bench = NoValue
    /\ clock = 0
    /\ wu = NoValue
    /\ iters = NoValue
    /\ run_st = NoValue
    /\ sampling_data = NoValue
    /\ calls = NoCalls
    /\ trace = <<>>
    /\ report = NoValue
    /\ author = [l \in StoreLabels |-> NoAuthor]

\* A program that makes no bench call.
BenchIdle == NotStarted /\ suite = "none" /\ budget = 0

\* No run_warm_up call and no TimedIterator is followed on its own.
LoopsIdle == warm = NoValue /\ timed = NoValue

StoreIdle ==
    /\ disk = [l \in StoreLabels |-> EmptyDir]
    /\ store_log = <<>>
    /\ store_ret = NoValue
    /\ writers = NoValue

\* One write; the log keeps its data, its result, the directory it found,
\* whether it moved the current file to the old slot, whether it printed that
\* the move failed, and how its std::fs::write ended if it came to it.
DiskWrite ==
    /\ Len(store_log) < MaxWrites
    /\ \E d \in StoreDatas, e \in WriteEnvs :
         LET w == try_write_last_simpling(disk, TestLabel, d, e) IN
         /\ disk' = w.disk
         /\ store_log' = Append(store_log,
                [data |-> d, wrote |-> w.wrote, before |-> disk[TestLabel],
                 rotated |-> /\ e.dir
                             /\ metadata_is_ok(disk[TestLabel], CURRENT_SAMPLE, e)
                             /\ e.rename,
                 warned |-> "Failed to move old sample" \in w.printed,
                 write |-> IF e.dir THEN e.write ELSE "none"])
    /\ store_ret' = NoValue
    /\ UNCHANGED writers

DiskRead ==
    /\ \E e \in ReadEnvs :
         \E r \in try_read_last_simpling(disk, TestLabel, e) :
            store_ret' = [env |-> e, result |-> r]
    /\ UNCHANGED <<disk, store_log, writers>>

DiskNext ==
    \/ DiskWrite /\ UNCHANGED <<serVars, schedVars, benchVars, anaVars, loopVars>>
    \/ DiskRead /\ UNCHANGED <<serVars, schedVars, benchVars, anaVars, loopVars>>

DiskSpecInit == StoreIdle /\ SerIdle /\ SchedIdle /\ AnaIdle /\ BenchIdle /\ LoopsIdle

DiskSpec == DiskSpecInit /\ [][DiskNext]_vars

(***************************************************************************)
(* RaceSpec: two invocations write their results under the same label at   *)
(* the same time.  try_write takes no lock, so its three file-system calls *)
(* (disk.rs:82, 84, 93) of the two writers interleave in any order.  The   *)
(* file system itself does not fail here, except that a rename of a file   *)
(* that is gone fails (ENOENT); each call is one step.                     *)
(***************************************************************************)
Writers == {1, 2}

\* What the label's directory holds before the two writes.
EarlierData == SamplingData(<<2>>, <<8>>)
EvenEarlierData == SamplingData(<<3>>, <<9>>)

InitialDirs ==
    {EmptyDir,
     PutFile(EmptyDir, CURRENT_SAMPLE, ser_sampling_data(EarlierData)),
     PutFile(PutFile(EmptyDir, CURRENT_SAMPLE, ser_sampling_data(EarlierData)),
             OLD_SAMPLE, ser_sampling_data(EvenEarlierData))}

RaceInit ==
    /\ \E dir \in InitialDirs, d1 \in StoreDatas, d2 \in StoreDatas :
         /\ disk = [l \in StoreLabels |-> IF l = TestLabel THEN dir ELSE EmptyDir]
         /\ writers =
              [found |-> dir,
               steps |-> <<>>,
               of |-> [w \in Writers |->
                         [pc |-> "metadata",
                          data |-> ser_sampling_data(IF w = 1 THEN d1 ELSE d2),
                          moved |-> NoValue]]]
    /\ store_log = <<>>
    /\ store_ret = NoValue
    /\ SerIdle /\ SchedIdle /\ AnaIdle /\ BenchIdle /\ LoopsIdle

\* disk.rs:82: std::fs::metadata(&latest_persisted).is_ok()
TryWriteMetadata(w) ==
    /\ writers.of[w].pc = "metadata"
    /\ writers' = [writers EXCEPT
                     !.of[w].pc = IF CURRENT_SAMPLE \in DOMAIN disk[TestLabel]
                                  THEN "rename" ELSE "write",
                     !.steps = Append(@, w)]
    /\ UNCHANGED <<disk, store_log, store_ret>>

\* disk.rs:84: std::fs::rename(&latest_persisted, &old_file); a failure is
\* printed and the call goes on.
TryWriteRename(w) ==
    /\ writers.of[w].pc = "rename"
    /\ LET there == CURRENT_SAMPLE \in DOMAIN disk[TestLabel] IN
       /\ disk' = IF there
                  THEN [disk EXCEPT ![TestLabel] =
                          fs_rename(@, CURRENT_SAMPLE, OLD_SAMPLE, [rename |-> TRUE])]
                  ELSE disk
       /\ writers' = [writers EXCEPT !.of[w].pc = "write",
                                     !.of[w].moved = Some(there),
                                     !.steps = Append(@, w)]
    /\ UNCHANGED <<store_log, store_ret>>

\* A write that moves a current file it finds to the old slot in the same step.
TryWriteWrite_rotating(w) ==
    /\ writers.of[w].pc = "write"
    /\ LET dir == disk[TestLabel]
           rotated == IF CURRENT_SAMPLE \in DOMAIN dir
                      THEN fs_rename(dir, CURRENT_SAMPLE, OLD_SAMPLE, [rename |-> TRUE])
                      ELSE dir
       IN disk' = [disk EXCEPT ![TestLabel] =
                     fs_write(rotated, CURRENT_SAMPLE, writers.of[w].data,
                              [write |-> "ok"])]
    /\ writers' = [writers EXCEPT !.of[w].pc = "done", !.steps = Append(@, w)]
    /\ UNCHANGED <<store_log, store_ret>>

\* disk.rs:93: std::fs::write(&latest_persisted, data)
TryWriteWrite(w) ==
    /\ writers.of[w].pc = "write"
    /\ disk' = [disk EXCEPT ![TestLabel] =
                  fs_write(@, CURRENT_SAMPLE, writers.of[w].data, [write |-> "ok"])]
    /\ writers' = [writers EXCEPT !.of[w].pc = "done", !.steps = Append(@, w)]
    /\ UNCHANGED <<store_log, store_ret>>

RaceNext ==
    \/ \E w \in Writers :
         TryWriteMetadata(w) /\ UNCHANGED <<serVars, schedVars, benchVars, anaVars, loopVars>>
    \/ \E w \in Writers :
         TryWriteRename(w) /\ UNCHANGED <<serVars, schedVars, benchVars, anaVars, loopVars>>
    \/ \E w \in Writers :
         TryWriteWrite(w) /\ UNCHANGED <<serVars, schedVars, benchVars, anaVars, loopVars>>

RaceSpec == RaceInit /\ [][RaceNext]_vars

(***************************************************************************)
(* SerSpec: a SamplingData is serialized, the buffer is possibly damaged   *)
(* (its count replaced, cut short, or extended), and it is deserialized.   *)
(***************************************************************************)
SampleValues == {1, 258}          \* 258 = 0x0102: two distinct bytes
TimeValues   == {0, 66051}        \* 66051 = 0x010203

SeqsUpTo(S, n) == UNION {[1..k -> S] : k \in 0..n}

SamplingDatas ==
    {SamplingData(s, t) : s \in SeqsUpTo(SampleValues, MaxLen),
                          t \in SeqsUpTo(TimeValues, MaxLen)}

U64Max   == [i \in 1..8 |-> 255]
\* The counts a damaged buffer may claim: small ones, 2^32, 2^59 - 1, 2^59, u64::MAX.
DamagedCounts ==
    {to_le_bytes(n, 8) : n \in 0..(MaxLen + 1)}
      \cup {<<0, 0, 0, 0, 1, 0, 0, 0>>, <<255, 255, 255, 255, 255, 255, 255, 7>>,
            <<0, 0, 0, 0, 0, 0, 0, 8>>, U64Max}

SerInit ==
    /\ ser_in \in SamplingDatas
    /\ ser_buf = <<>>
    /\ ser_stage = "fresh"
    /\ ser_ret = NoValue

Serialize ==
    /\ ser_stage = "fresh"
    /\ ser_buf' = ser_sampling_data(ser_in)
    /\ ser_stage' = "serialized"
    /\ UNCHANGED <<ser_in, ser_ret>>

ReplaceCount ==
    /\ ser_stage = "serialized"
    /\ \E c \in DamagedCounts :
         /\ c # SubSeq(ser_buf, 1, 8)
         /\ ser_buf' = c \o SubSeq(ser_buf, 9, Len(ser_buf))
    /\ ser_stage' = "damaged"
    /\ UNCHANGED <<ser_in, ser_ret>>

Truncate ==
    /\ ser_stage = "serialized"
    /\ \E k \in 0..(Len(ser_buf) - 1) : ser_buf' = SubSeq(ser_buf, 1, k)
    /\ ser_stage' = "damaged"
    /\ UNCHANGED <<ser_in, ser_ret>>

Extend ==
    /\ ser_stage = "serialized"
    /\ \E b \in {0, 255} : ser_buf' = Append(ser_buf, b)
    /\ ser_stage' = "damaged"
    /\ UNCHANGED <<ser_in, ser_ret>>

Deserialize ==
    /\ ser_stage \in {"serialized", "damaged"}
    /\ ser_ret' \in try_de_sampling_data(ser_buf)
    /\ ser_stage' = IF ser_stage = "serialized" THEN "decoded" ELSE "decoded_damaged"
    /\ UNCHANGED <<ser_in, ser_buf>>

SerNext ==
    \/ Serialize /\ UNCHANGED <<schedVars, disk, storeVars, benchVars, anaVars, loopVars>>
    \/ ReplaceCount /\ UNCHANGED <<schedVars, disk, storeVars, benchVars, anaVars, loopVars>>
    \/ Truncate /\ UNCHANGED <<schedVars, disk, storeVars, benchVars, anaVars, loopVars>>
    \/ Extend /\ UNCHANGED <<schedVars, disk, storeVars, benchVars, anaVars, loopVars>>
    \/ Deserialize /\ UNCHANGED <<schedVars, disk, storeVars, benchVars, anaVars, loopVars>>


SerSpecInit == SerInit /\ SchedIdle /\ AnaIdle /\ StoreIdle /\ BenchIdle /\ LoopsIdle

SerSpec == SerSpecInit /\ [][SerNext]_vars

(***************************************************************************)
(* The iteration scheduler.  met is the f64 mean cost as a rational        *)
(* [num, den] with num >= 1 (the callers clamp it), num_samples >= 1.      *)
(***************************************************************************)
Max(a, b) == IF a >= b THEN a ELSE b

CeilDiv(a, b) == (a + b - 1) \div b

TotalRuns(num_samples) == (num_samples * (num_samples + 1)) \div 2

\* A scheduler that rounds the step down instead of up.
calculate_iterations_floor(met, num_samples, target_ns) ==
    LET total_runs == TotalRuns(num_samples)
        d == Max((target_ns * met.den) \div (met.num * total_runs), 1)
    IN [iters |-> [a \in 1..num_samples |-> a * d], warned |-> (d = 1)]

RECURSIVE ShrunkNumSamples(_, _, _)
\* Policy (b) of the design notes: drop samples while the step stays 1.
ShrunkNumSamples(met, num_samples, target_ns) ==
    IF num_samples <= 1
         \/ CeilDiv(target_ns * met.den, met.num * TotalRuns(num_samples)) > 1
    THEN num_samples
    ELSE ShrunkNumSamples(met, num_samples - 1, target_ns)

\* A scheduler that follows policy (b).
calculate_iterations_shrinking(met, num_samples, target_ns) ==
    LET n == ShrunkNumSamples(met, num_samples, target_ns)
        d == Max(CeilDiv(target_ns * met.den, met.num * TotalRuns(n)), 1)
    IN [iters |-> [a \in 1..n |-> a * d], warned |-> (d = 1)]

\* The returned Vec<u64> is iters; warned says the "Unable to complete"
\* line was printed.
calculate_iterations(met, num_samples, target_ns) ==
    LET m_ns == target_ns
        total_runs == TotalRuns(num_samples)
        d == Max(CeilDiv(m_ns * met.den, met.num * total_runs), 1)
    IN [iters |-> [a \in 1..num_samples |-> a * d], warned |-> (d = 1)]

MaxCostNum == 3
\* The spec's worked example: mean cost 100 ns, 5 samples, target 10000 ns.
DocumentedSchedule == [met |-> [num |-> 100, den |-> 1], num_samples |-> 5,
                       target_ns |-> 10000]

SchedInputs ==
    {[met |-> [num |-> a, den |-> b], num_samples |-> n, target_ns |-> m] :
        a \in 1..MaxCostNum, b \in 1..MaxCostDen, n \in 1..MaxSamples,
        m \in 0..MaxTargetNs}
      \cup {DocumentedSchedule}

SchedInit ==
    /\ sched_in \in SchedInputs
    /\ sched_ret = NoValue

CalculateIterations ==
    /\ sched_ret = NoValue
    /\ sched_ret' = calculate_iterations(sched_in.met, sched_in.num_samples,
                                         sched_in.target_ns)
    /\ UNCHANGED sched_in

SchedNext == CalculateIterations /\ UNCHANGED <<serVars, disk, storeVars, benchVars, anaVars, loopVars>>

SchedSpecInit == SchedInit /\ AnaIdle /\ SerIdle /\ StoreIdle /\ BenchIdle /\ LoopsIdle

SchedSpec == SchedSpecInit /\ [][SchedNext]_vars

(***************************************************************************)
(* The benchmark pipeline: bench_with_configuration_labeled and            *)
(* bench_with_setup_configuration_labeled, one step at a time.             *)
(***************************************************************************)
ILLEGAL == {47, 0, 58, 60, 62, 34, 92, 124, 63, 42}   \* / NUL : < > " \ | ? *

\* A validation that looks for the illegal characters only.
validate_label_illegal_only(label) ==
    IF \E i \in 1..Len(label) : label[i] \in ILLEGAL
    THEN [tag |-> "Invalid", reason |-> "Label contains illegal character"]
    ELSE [tag |-> "Valid"]

validate_label(label) ==
    IF \E i \in 1..Len(label) : label[i] \in ILLEGAL
    THEN [tag |-> "Invalid", reason |-> "Label contains illegal character"]
    ELSE IF \E i \in 1..Len(label) : label[i] < 32
    THEN [tag |-> "Invalid", reason |-> "Label contains illegal ascii-control character"]
    ELSE IF Len(label) > 0 /\ label[Len(label)] = 46
    THEN [tag |-> "Invalid", reason |-> "Label cannot end with dot"]
    ELSE IF Len(label) > 0 /\ label[Len(label)] = 32
    THEN [tag |-> "Invalid", reason |-> "Label cannot end with a space"]
    ELSE [tag |-> "Valid"]

fallback_to_anonymous_on_invalid_label(label) ==
    IF validate_label(label).tag = "Invalid" THEN Anonymous ELSE label

RawLabels == {TestLabel, <<97, 47, 98>>}     \* "label", "a/b"

\* The public bench functions; those without a label argument pass
\* "anonymous" on, and all of them end in one of the two
\* ..._configuration_labeled functions.
LabeledEntryPoints ==
    {"bench_labeled", "bench_with_configuration_labeled",
     "bench_with_setup_labeled", "bench_with_setup_configuration_labeled"}

EntryPoints ==
    LabeledEntryPoints \cup
       {"bench", "bench_with_configuration", "bench_with_setup",
        "bench_with_setup_configuration"}

\* The label that an entry point hands to Output::dump_sampling_data.
output_label(entry, label) ==
    fallback_to_anonymous_on_invalid_label(
        IF entry \in LabeledEntryPoints THEN label ELSE Anonymous)

WarmUpTimes == {0, 2}
MeasurementTimes == {3}
MaxIterationsOptions == {NoValue, Some(2)}
WorkCosts == {0, 1}      \* ns that one call of the work takes

\* BenchmarkConfig
Configs ==
    [warm_up_time : WarmUpTimes, measurement_time : MeasurementTimes,
     num_samples : 1..MaxNumSamples, dump_results_to_disk : BOOLEAN,
     max_iterations : MaxIterationsOptions]

RECURSIVE SeqSum(_)
SeqSum(q) == IF q = <<>> THEN 0 ELSE Head(q) + SeqSum(Tail(q))

\* wu.elapsed.as_nanos() as f64 / wu.iterations as f64
mean_execution_time_of(w) == [num |-> w.elapsed, den |-> w.iterations]

\* A clamp at a thousandth of a nanosecond.
max_1_at_a_thousandth(met) ==
    IF met.num * 1000 < met.den THEN [num |-> 1, den |-> 1000] ELSE met

\* f64::max(self, 1.0)
max_1(met) == IF met.num < met.den THEN [num |-> 1, den |-> 1] ELSE met

\* A calculate_iters_and_total_iters that overlooks cfg.max_iterations.
calculate_iters_and_total_iters_no_ceiling(cfg, mean_execution_time, sample_size) ==
    LET r == calculate_iterations(max_1(mean_execution_time), sample_size,
                                  cfg.measurement_time)
    IN [iters |-> r.iters, total_iters |-> SeqSum(r.iters), warned |-> r.warned]

calculate_iters_and_total_iters(cfg, mean_execution_time, sample_size) ==
    IF cfg.max_iterations # NoValue
    THEN [iters |-> <<cfg.max_iterations.val>>,
          total_iters |-> cfg.max_iterations.val, warned |-> FALSE]
    ELSE
      LET r == calculate_iterations(max_1(mean_execution_time), sample_size,
                                    cfg.measurement_time)
      IN [iters |-> r.iters, total_iters |-> SeqSum(r.iters), warned |-> r.warned]

\* A runner that returns the elapsed times newest first.
run_result_reversed(sample_sizes, times) ==
    SamplingData(sample_sizes, [i \in 1..Len(times) |-> times[Len(times) + 1 - i]])

\* The SamplingData that run and run_with_setup build from the schedule and
\* the collected times.
run_result(sample_sizes, times) == SamplingData(sample_sizes, times)

(***************************************************************************)
(* f64 values are exact rationals [num, den] in lowest terms with den > 0  *)
(* (rounding is not modelled), and the two values NaN and f64::MAX.        *)
(***************************************************************************)
Abs(x) == IF x < 0 THEN -x ELSE x

RECURSIVE Gcd(_, _)
Gcd(a, b) == IF b = 0 THEN a ELSE Gcd(b, a % b)

Rat(n, d) ==
    LET g == Gcd(Abs(n), d) IN [num |-> n \div g, den |-> d \div g]

NaN == [tag |-> "NaN"]

F64_MAX == [tag |-> "f64::MAX"]

INFINITY == [tag |-> "inf"]

NEG_INFINITY == [tag |-> "-inf"]

IsRat(x) == x # NaN /\ x # F64_MAX /\ x # INFINITY /\ x # NEG_INFINITY

\* a + b, a - b, a * b; NaN if an operand is NaN.  The fractions are brought
\* to their least common denominator, and common factors are taken out
\* before a product, to keep the numbers small.
f64_add(a, b) ==
    IF a = NaN \/ b = NaN THEN NaN
    ELSE LET g == Gcd(a.den, b.den)
         IN Rat(a.num * (b.den \div g) + b.num * (a.den \div g),
                (a.den \div g) * b.den)

f64_sub(a, b) ==
    IF a = NaN \/ b = NaN THEN NaN
    ELSE LET g == Gcd(a.den, b.den)
         IN Rat(a.num * (b.den \div g) - b.num * (a.den \div g),
                (a.den \div g) * b.den)

f64_mul(a, b) ==
    IF a = NaN \/ b = NaN THEN NaN
    ELSE LET g == Gcd(Abs(a.num), b.den)
             h == Gcd(Abs(b.num), a.den)
         IN Rat((a.num \div g) * (b.num \div h), (a.den \div h) * (b.den \div g))

\* a / k for an integer k as f64: 0.0 / 0.0 is NaN, and a division of zero
\* by a negative count is -0.0, which compares equal to 0.0
f64_div_int(a, k) ==
    IF a = NaN THEN NaN
    ELSE IF k = 0 THEN (IF a.num = 0 THEN NaN ELSE INFINITY)
    ELSE IF k < 0 THEN Rat(-a.num, a.den * (-k))
    ELSE Rat(a.num, a.den * k)

\* a < b; every comparison with NaN is false
f64_lt(a, b) ==
    IF a = NaN \/ b = NaN THEN FALSE
    ELSE IF a = INFINITY \/ b = NEG_INFINITY THEN FALSE
    ELSE IF b = INFINITY \/ a = NEG_INFINITY THEN TRUE
    ELSE IF a = F64_MAX THEN FALSE
    ELSE IF b = F64_MAX THEN TRUE
    ELSE a.num * b.den < b.num * a.den

RECURSIVE SumSquares(_, _, _)
\* sample.iter().map(|val| (val - mean).powi(2)).sum()
SumSquares(sample, mean, i) ==
    IF i > Len(sample) THEN Rat(0, 1)
    ELSE f64_add(f64_mul(f64_sub(sample[i], mean), f64_sub(sample[i], mean)),
                 SumSquares(sample, mean, i + 1))

\* A variance with the divisor n.
calculate_variance_population(sample, mean) ==
    f64_div_int(SumSquares(sample, mean, 1), Len(sample))

calculate_variance(sample, mean) ==
    f64_div_int(SumSquares(sample, mean, 1), Len(sample) - 1)

Min(a, b) == IF a <= b THEN a ELSE b

RECURSIVE CountLess(_, _, _)
\* distribution.iter().filter(|x| x < &&total_t).count()
CountLess(distribution, total_t, i) ==
    IF i > Len(distribution) THEN 0
    ELSE (IF f64_lt(distribution[i], total_t) THEN 1 ELSE 0)
            + CountLess(distribution, total_t, i + 1)

\* A p-value of one tail.
calculate_p_value_one_tailed(total_t, distribution) ==
    LET hits == CountLess(distribution, total_t, 1)
        min == Min(hits, Len(distribution) - hits)
    IN f64_div_int(Rat(min, 1), Len(distribution))

calculate_p_value(total_t, distribution) ==
    LET hits == CountLess(distribution, total_t, 1)
        tails == 2
        min == Min(hits, Len(distribution) - hits)
    IN f64_div_int(Rat(min * tails, 1), Len(distribution))

RECURSIVE SumF64(_, _)
\* a.iter().sum::<f64>()
SumF64(a, i) == IF i > Len(a) THEN Rat(0, 1) ELSE f64_add(a[i], SumF64(a, i + 1))

calculate_mean(a) == f64_div_int(SumF64(a, 1), Len(a))

\* a / b for finite a and b
f64_div(a, b) ==
    IF a = NaN \/ b = NaN THEN NaN
    ELSE IF b.num = 0
         THEN (IF a.num = 0 THEN NaN ELSE IF a.num > 0 THEN INFINITY ELSE NEG_INFINITY)
    ELSE LET g == Gcd(Abs(a.num), Abs(b.num))
             h == Gcd(a.den, b.den)
             n == (a.num \div g) * (b.den \div h)
             d == (a.den \div h) * (Abs(b.num) \div g)
         IN IF b.num < 0 THEN Rat(-n, d) ELSE Rat(n, d)

\* The t value of two samples, kept as t * |t|: the square root of line 99 is
\* irrational, only the order of t values is used (calculate_p_value), and
\* t -> t * |t| keeps the order.  A sample of one value has the variance NaN,
\* and so has the t value.
calculate_t_value(sample_a, sample_b) ==
    LET a_mean == calculate_mean(sample_a)
        b_mean == calculate_mean(sample_b)
        a_var == calculate_variance(sample_a, a_mean)
        b_var == calculate_variance(sample_b, b_mean)
        mean_diff == f64_sub(a_mean, b_mean)
        d2 == f64_add(f64_div_int(a_var, Len(sample_a)), f64_div_int(b_var, Len(sample_b)))
        square == f64_div(f64_mul(mean_diff, mean_diff), d2)
    IN IF mean_diff = NaN \/ d2 = NaN \/ square = NaN THEN NaN
       ELSE IF mean_diff.num < 0
            THEN (IF square = INFINITY THEN NEG_INFINITY ELSE Rat(-square.num, square.den))
       ELSE square

\* resample: draws[k][i] is the index that the generator gives for place i of
\* the k-th resample (rng.next() % combined.len(), counted from 1).
resample(sample_a, sample_b, draws) ==
    LET a_len == Len(sample_a)
        combined == sample_a \o sample_b
        combined_len == Len(combined)
        t_of(draw) ==
            LET sample == [i \in 1..combined_len |-> combined[draw[i]]]
            IN calculate_t_value(SubSeq(sample, 1, a_len),
                                 SubSeq(sample, a_len + 1, combined_len))
    IN [k \in 1..Len(draws) |-> t_of(draws[k])]

\* f64::total_cmp(a, b) is not Greater: -inf, the finite values in their
\* order, +inf, and the (positive) NaN last.
total_cmp_le(a, b) ==
    IF b = NaN THEN TRUE
    ELSE IF a = NaN THEN FALSE
    ELSE a = b \/ f64_lt(a, b)

RECURSIVE sort_by_total_cmp(_)
\* sample.sort_by(f64::total_cmp): the values in ascending order (by insertion
\* of the last value into the sorted others; the sort is stable, and equal
\* values are the same value here)
sort_by_total_cmp(sample) ==
    IF Len(sample) <= 1 THEN sample
    ELSE LET x == sample[Len(sample)]
             rest == sort_by_total_cmp(SubSeq(sample, 1, Len(sample) - 1))
             below == SelectSeq(rest, LAMBDA y : total_cmp_le(y, x))
             above == SelectSeq(rest, LAMBDA y : ~total_cmp_le(y, x))
         IN below \o <<x>> \o above

\* A median that takes the lower of two middle values.
calculate_median_lower(sample) ==
    LET sorted == sort_by_total_cmp(sample)
        index == IF sorted = <<>> THEN 0 ELSE (Len(sorted) - 1) \div 2
    IN [median |-> IF index < Len(sorted) THEN sorted[index + 1] ELSE Rat(0, 1),
        sample |-> sorted]

\* calculate_median: the value returned, and the Vec as the call leaves it.
calculate_median(sample) ==
    LET sorted == sort_by_total_cmp(sample)
        index == Len(sorted) \div 2
    IN [median |-> IF index < Len(sorted) THEN sorted[index + 1] ELSE Rat(0, 1),
        sample |-> sorted]

\* An index that is not reduced to the length of the pool.
index_of_next_unreduced(next, combined_len) == next

\* (rng.next() % combined.len() as u64) as usize
index_of_next(next, combined_len) == next % combined_len

\* resample with the values that rng.next() returns, in order.  combined[index]
\* panics when the index is not below combined.len(); samples are the Vecs
\* named sample of the turns (history).
resample_with_rng(sample_a, sample_b, times, rng) ==
    LET combined == sample_a \o sample_b
        combined_len == Len(combined)
        index(k, i) == index_of_next(rng[(k - 1) * combined_len + i], combined_len)
        draws == [k \in 1..times |-> [i \in 1..combined_len |-> index(k, i) + 1]]
    IN IF \E k \in 1..times, i \in 1..combined_len : index(k, i) >= combined_len
       THEN Panic("index out of bounds")
       ELSE [distributions |-> resample(sample_a, sample_b, draws),
             samples |-> [k \in 1..times |->
                            [i \in 1..combined_len |-> combined[draws[k][i]]]]]

NOISE_THRESHOLD == 1

SIGNIFICANCE_LEVEL == Rat(5, 100)

\* mean_change.abs() >= NOISE_THRESHOLD
f64_abs_ge(x, k) ==
    IF x = NaN THEN FALSE
    ELSE IF x = INFINITY \/ x = NEG_INFINITY THEN TRUE
    ELSE Abs(x.num) >= k * x.den

\* a <= b for a finite b
f64_le(a, b) ==
    IF a = NaN THEN FALSE
    ELSE IF a = NEG_INFINITY THEN TRUE
    ELSE IF a = INFINITY THEN FALSE
    ELSE a.num * b.den <= b.num * a.den

\* The classification of the timer's comparison (dump_timing_data): by the
\* threshold alone, an increase is Better.
classify_mean_change_as_timing(mean_change, p) ==
    IF f64_lt(mean_change, Rat(0, 1)) /\ f64_abs_ge(mean_change, NOISE_THRESHOLD)
      THEN "Worse"
    ELSE IF f64_abs_ge(mean_change, NOISE_THRESHOLD) THEN "Better"
    ELSE "Same"

classify_mean_change(mean_change, p) ==
    IF f64_abs_ge(mean_change, NOISE_THRESHOLD) /\ f64_le(p, SIGNIFICANCE_LEVEL)
      THEN IF f64_lt(Rat(0, 1), mean_change) THEN "Worse"
           ELSE IF f64_lt(mean_change, Rat(0, 1)) THEN "Better"
           ELSE "Same"
    ELSE "Same"

\* (new / old - 1f64) * 100f64
percent_change(new, old) ==
    LET q == f64_div(new, old)
    IN IF q = NaN \/ q = INFINITY \/ q = NEG_INFINITY THEN q
       ELSE f64_mul(f64_sub(q, Rat(1, 1)), Rat(100, 1))

TIMING_NOISE_THRESHOLD == 5

TimingData(min_nanos, max_nanos, elapsed, iterations) ==
    [min_nanos |-> min_nanos, max_nanos |-> max_nanos, elapsed |-> elapsed,
     iterations |-> iterations]

\* mean_change >= k and mean_change <= -k of f64
f64_ge_int(x, k) ==
    IF x = NaN \/ x = NEG_INFINITY THEN FALSE
    ELSE IF x = INFINITY THEN TRUE
    ELSE x.num >= k * x.den

f64_le_int(x, k) ==
    IF x = NaN \/ x = INFINITY THEN FALSE
    ELSE IF x = NEG_INFINITY THEN TRUE
    ELSE x.num <= k * x.den

\* ComparedStdout::dump_timing_data, Ok(Some(old)): the mean change and the
\* comparison that print_cmp is given.
compare_timing_data(data, old) ==
    LET mean == f64_div(Rat(data.elapsed, 1), Rat(data.iterations, 1))
        mean_change ==
            percent_change(mean, f64_div(Rat(old.elapsed, 1), Rat(old.iterations, 1)))
    IN [mean_change |-> mean_change,
        comparison |->
           IF f64_ge_int(mean_change, TIMING_NOISE_THRESHOLD) THEN "Better"
           ELSE IF f64_le_int(mean_change, -TIMING_NOISE_THRESHOLD) THEN "Worse"
           ELSE "Same"]

\* One turn of the loop of simple_analyze_sampling_data.
AnalyzeTurn(acc, num_samples, elapsed_nanos) ==
    LET sample_average == Rat(elapsed_nanos, num_samples) IN
    [min |-> IF f64_lt(sample_average, acc.min) THEN sample_average ELSE acc.min,
     max |-> IF f64_lt(acc.max, sample_average) THEN sample_average ELSE acc.max,
     total |-> f64_add(acc.total, sample_average),
     total_elapsed |-> acc.total_elapsed + elapsed_nanos,
     sample_averages |-> Append(acc.sample_averages, sample_average)]

RECURSIVE AnalyzeLoop(_, _, _)
\* The loop over samples zipped with times: it ends with the shorter one.
AnalyzeLoop(data, i, acc) ==
    IF i > Len(data.samples) \/ i > Len(data.times) THEN acc
    ELSE AnalyzeLoop(data, i + 1, AnalyzeTurn(acc, data.samples[i], data.times[i]))

\* An analysis whose average is the total elapsed time over the number of
\* samples.
simple_analyze_sampling_data_mean_of_times(data) ==
    LET acc == AnalyzeLoop(data, 1,
                  [min |-> F64_MAX, max |-> Rat(0, 1), total |-> Rat(0, 1),
                   total_elapsed |-> 0, sample_averages |-> <<>>])
        total_average == f64_div_int(Rat(acc.total_elapsed, 1), Len(data.samples))
    IN [elapsed |-> acc.total_elapsed, min |-> acc.min, max |-> acc.max,
        average |-> total_average,
        variance |-> calculate_variance(acc.sample_averages, total_average),
        per_sample_average |-> acc.sample_averages]

\* Iteration counts are at least 1 here: a sample of 0 iterations (a division
\* by zero) is not among the inputs.
simple_analyze_sampling_data(data) ==
    LET acc == AnalyzeLoop(data, 1,
                  [min |-> F64_MAX, max |-> Rat(0, 1), total |-> Rat(0, 1),
                   total_elapsed |-> 0, sample_averages |-> <<>>])
        total_average == f64_div_int(acc.total, Len(data.samples))
    IN [elapsed |-> acc.total_elapsed, min |-> acc.min, max |-> acc.max,
        average |-> total_average,
        variance |-> calculate_variance(acc.sample_averages, total_average),
        per_sample_average |-> acc.sample_averages]

\* The Ok(Some(last)) arm of ComparedStdout::dump_sampling_data: what it
\* prints about the mean.
compare_sampling_data(data, last, draws) ==
    LET analysis == simple_analyze_sampling_data(data)
        old_analysis == simple_analyze_sampling_data(last)
        mean_change == percent_change(analysis.average, old_analysis.average)
        t == calculate_t_value(analysis.per_sample_average,
                               old_analysis.per_sample_average)
        t_distribution == resample(analysis.per_sample_average,
                                   old_analysis.per_sample_average, draws)
        p == calculate_p_value(t, t_distribution)
    IN [mean_change |-> mean_change, p |-> p,
        comparison |-> classify_mean_change(mean_change, p)]

\* Every bench call the configuration space allows.
AllCalls ==
    [raw_label : RawLabels, cfg : Configs, with_setup : BOOLEAN, cost : WorkCosts]

\* The bench calls of a program with three calls under one label that write
\* different data to the store, and one call that does not dump.
SeriesCfg(warm_up_time, num_samples, dump, max_iterations) ==
    [warm_up_time |-> warm_up_time, measurement_time |-> 3,
     num_samples |-> num_samples, dump_results_to_disk |-> dump,
     max_iterations |-> max_iterations]

SeriesCalls ==
    { [raw_label |-> TestLabel, cfg |-> SeriesCfg(0, 2, TRUE, NoValue),
       with_setup |-> TRUE, cost |-> 1],
      [raw_label |-> TestLabel, cfg |-> SeriesCfg(0, 1, TRUE, Some(2)),
       with_setup |-> FALSE, cost |-> 1],
      [raw_label |-> TestLabel, cfg |-> SeriesCfg(2, 1, TRUE, NoValue),
       with_setup |-> FALSE, cost |-> 1],
      [raw_label |-> <<97, 47, 98>>, cfg |-> SeriesCfg(0, 1, FALSE, NoValue),
       with_setup |-> FALSE, cost |-> 0] }

CallsOf(program) ==
    CASE program = "all" -> AllCalls
      [] program = "series" -> SeriesCalls
      [] OTHER -> {}

\* The closure that is warmed up: the work, after a call of setup if there is one.
WuRoutineCost == bench.cost + (IF bench.with_setup THEN SetupCost ELSE 0)

Start ==
    /\ pc = "idle"
    /\ inv < budget
    /\ \E call \in CallsOf(suite) :
         bench' = [raw_label |-> call.raw_label,
                   label |-> fallback_to_anonymous_on_invalid_label(call.raw_label),
                   cfg |-> call.cfg, with_setup |-> call.with_setup,
                   cost |-> call.cost]
    /\ inv' = inv + 1
    /\ pc' = "warm_up"
    /\ clock' = 0
    /\ wu' = [elapsed |-> 0, iterations |-> 0, run_iterations |-> 1]
    /\ iters' = NoValue
    /\ run_st' = NoValue
    /\ sampling_data' = NoValue
    /\ calls' = NoCalls
    /\ trace' = <<>>
    /\ report' = NoValue
    /\ UNCHANGED <<suite, budget, disk, author>>

\* A warm-up loop that looks at the budget before it runs a batch.
WarmUpBatch_budget_first ==
    /\ pc = "warm_up"
    /\ wu.run_iterations <= MaxWarmBatch
    /\ IF wu.elapsed >= bench.cfg.warm_up_time
       THEN /\ pc' = "schedule"
            /\ trace' = Append(trace, "warm_up")
            /\ UNCHANGED <<clock, wu, calls>>
       ELSE /\ clock' = clock + wu.run_iterations * WuRoutineCost
            /\ wu' = [elapsed |-> wu.elapsed + wu.run_iterations * WuRoutineCost,
                      iterations |-> wu.iterations + wu.run_iterations,
                      run_iterations |-> wu.run_iterations * 2]
            /\ calls' = [calls EXCEPT
                           !.warm_up = @ + wu.run_iterations,
                           !.setup_warm_up =
                              @ + (IF bench.with_setup THEN wu.run_iterations ELSE 0)]
            /\ UNCHANGED <<pc, trace>>
    /\ UNCHANGED <<suite, budget, inv, bench, iters, run_st, sampling_data, report, disk, author>>

\* One turn of run_warm_up's loop.  run_iterations doubles; the model stops
\* following the loop before the doubling can wrap.
WarmUpBatch ==
    /\ pc = "warm_up"
    /\ wu.run_iterations <= MaxWarmBatch
    /\ LET batch == wu.run_iterations * WuRoutineCost
           elapsed == wu.elapsed + batch
       IN /\ clock' = clock + batch
          /\ wu' = [elapsed |-> elapsed,
                    iterations |-> wu.iterations + wu.run_iterations,
                    run_iterations |-> wu.run_iterations * 2]
          /\ calls' = [calls EXCEPT
                         !.warm_up = @ + wu.run_iterations,
                         !.setup_warm_up =
                            @ + (IF bench.with_setup THEN wu.run_iterations ELSE 0)]
          /\ IF elapsed >= bench.cfg.warm_up_time
             THEN pc' = "schedule" /\ trace' = Append(trace, "warm_up")
             ELSE UNCHANGED <<pc, trace>>
    /\ UNCHANGED <<suite, budget, inv, bench, iters, run_st, sampling_data, report, disk, author>>

Schedule ==
    /\ pc = "schedule"
    /\ iters' = calculate_iters_and_total_iters(
                   bench.cfg, mean_execution_time_of(wu), bench.cfg.num_samples)
    /\ run_st' = [idx |-> 1, inputs |-> <<>>, consumed |-> <<>>, start |-> NoValue, done |-> 0,
                  events |-> <<>>,
                  times |-> <<>>]
    /\ pc' = "run"
    /\ trace' = Append(trace, "schedule")
    /\ UNCHANGED <<suite, budget, inv, bench, clock, wu, sampling_data, calls, report, disk, author>>

InSample == pc = "run" /\ run_st.idx <= Len(iters.iters)

it_count == iters.iters[run_st.idx]

\* A run_with_setup whose timer starts before the inputs are collected.
RunSetupCall_after_start ==
    /\ InSample
    /\ bench.with_setup
    /\ run_st.done = 0
    /\ Len(run_st.inputs) < it_count
    /\ run_st' = [run_st EXCEPT !.inputs = Append(@, calls.setup_run + 1),
                                !.start = IF @ = NoValue THEN Some(clock) ELSE @,
                                !.events = Append(@, "setup")]
    /\ clock' = clock + SetupCost
    /\ calls' = [calls EXCEPT !.setup_run = @ + 1]
    /\ UNCHANGED <<suite, budget, pc, inv, bench, wu, iters, sampling_data, trace, report, disk, author>>

\* run_with_setup: one call of setup, collected before the timer starts.  The
\* outputs of setup are numbered as they are made.
RunSetupCall ==
    /\ InSample
    /\ bench.with_setup
    /\ run_st.start = NoValue
    /\ Len(run_st.inputs) < it_count
    /\ run_st' = [run_st EXCEPT !.inputs = Append(@, calls.setup_run + 1),
                                !.events = Append(@, "setup")]
    /\ clock' = clock + SetupCost
    /\ calls' = [calls EXCEPT !.setup_run = @ + 1]
    /\ UNCHANGED <<suite, budget, pc, inv, bench, wu, iters, sampling_data, trace, report, disk, author>>

\* let start = Instant::now();
RunStartTimer ==
    /\ InSample
    /\ run_st.start = NoValue
    /\ bench.with_setup => Len(run_st.inputs) = it_count
    /\ run_st' = [run_st EXCEPT !.start = Some(clock), !.events = Append(@, "start")]
    /\ UNCHANGED <<suite, budget, pc, inv, bench, clock, wu, iters, sampling_data, calls, trace,
                   report, disk, author>>

\* A call of the work that does not wait for the timer.
RunWorkCall_untimed ==
    /\ InSample
    /\ run_st.done < it_count
    /\ bench.with_setup => run_st.inputs # <<>>
    /\ run_st' = IF bench.with_setup
                   THEN [run_st EXCEPT !.done = @ + 1,
                                       !.inputs = Tail(@),
                                       !.consumed = Append(@, Head(run_st.inputs)),
                                       !.events = Append(@, "call")]
                   ELSE [run_st EXCEPT !.done = @ + 1, !.events = Append(@, "call")]
    /\ clock' = clock + bench.cost
    /\ calls' = [calls EXCEPT !.run = @ + 1]
    /\ UNCHANGED <<suite, budget, pc, inv, bench, wu, iters, sampling_data, trace, report, disk, author>>

\* One call of the work inside the timed loop; with setup it takes the next
\* of the collected inputs.  events is the order of the timer's readings and
\* the calls of the run (history).
RunWorkCall ==
    /\ InSample
    /\ run_st.start # NoValue
    /\ run_st.done < it_count
    /\ bench.with_setup => run_st.inputs # <<>>
    /\ run_st' = IF bench.with_setup
                   THEN [run_st EXCEPT !.done = @ + 1,
                                       !.inputs = Tail(@),
                                       !.consumed = Append(@, Head(run_st.inputs)),
                                       !.events = Append(@, "call")]
                   ELSE [run_st EXCEPT !.done = @ + 1, !.events = Append(@, "call")]
    /\ clock' = clock + bench.cost
    /\ calls' = [calls EXCEPT !.run = @ + 1]
    /\ UNCHANGED <<suite, budget, pc, inv, bench, wu, iters, sampling_data, trace, report, disk, author>>

\* start.elapsed().as_nanos(), collected as the sample's time.
RunStopTimer ==
    /\ InSample
    /\ run_st.start # NoValue
    /\ run_st.done = it_count
    /\ run_st' = [idx |-> run_st.idx + 1, inputs |-> <<>>,
                  consumed |-> run_st.consumed, start |-> NoValue, done |-> 0,
                  events |-> Append(run_st.events, "stop"),
                  times |-> Append(run_st.times, clock - run_st.start.val)]
    /\ UNCHANGED <<suite, budget, pc, inv, bench, clock, wu, iters, sampling_data, calls, trace,
                   report, disk, author>>

RunReturn ==
    /\ pc = "run"
    /\ run_st.idx > Len(iters.iters)
    /\ sampling_data' = run_result(iters.iters, run_st.times)
    /\ run_st' = NoValue
    /\ pc' = "dump"
    /\ trace' = Append(trace, "run")
    /\ UNCHANGED <<suite, budget, inv, bench, clock, wu, iters, calls, report, disk, author>>

NewReport(analysis) ==
    [analysis |-> analysis, read |-> NoValue, compared |-> NoValue,
     wrote |-> NoValue, printed |-> {}]

\* SimpleStdout.dump_sampling_data
DumpSimple ==
    /\ pc = "dump"
    /\ ~bench.cfg.dump_results_to_disk
    /\ report' = NewReport(simple_analyze_sampling_data(sampling_data))
    /\ pc' = "done"
    /\ trace' = Append(trace, "analysis")
    /\ UNCHANGED <<suite, budget, inv, bench, clock, wu, iters, run_st, sampling_data, calls,
                   disk, author>>

\* ComparedStdout.dump_sampling_data: the analysis and its two print calls.
Analyze ==
    /\ pc = "dump"
    /\ bench.cfg.dump_results_to_disk
    /\ report' = NewReport(simple_analyze_sampling_data(sampling_data))
    /\ pc' = "read"
    /\ trace' = Append(trace, "analysis")
    /\ UNCHANGED <<suite, budget, inv, bench, clock, wu, iters, run_st, sampling_data, calls,
                   disk, author>>

\* ComparedStdout.dump_sampling_data: the match on try_read_last_simpling.
ReadLast ==
    /\ pc = "read"
    /\ \E e \in ReadEnvs :
         \E r \in try_read_last_simpling(disk, bench.label, e) :
            /\ pc' = IF r.tag \in {"Panic", "Abort"} THEN "crashed" ELSE "write"
            /\ report' =
                 [report EXCEPT
                    !.read = r,
                    !.compared =
                       IF r.tag = "Ok" /\ r.val # NoValue
                       THEN [last |-> r.val.val,
                             analysis |-> simple_analyze_sampling_data(r.val.val),
                             by |-> author[bench.label].by,
                             written |-> author[bench.label].data]
                       ELSE NoValue,
                    !.printed =
                       IF r.tag = "Err" THEN @ \cup {"Failed to read last sample"}
                       ELSE @]
    /\ trace' = Append(trace, "read")
    /\ UNCHANGED <<suite, budget, inv, bench, clock, wu, iters, run_st, sampling_data, calls,
                   disk, author>>

\* ComparedStdout.dump_sampling_data: disk::try_write_last_simpling.
WriteNew ==
    /\ pc = "write"
    /\ \E e \in WriteEnvs :
         LET w == try_write_last_simpling(disk, bench.label, sampling_data, e) IN
         /\ disk' = w.disk
         /\ report' = [report EXCEPT !.wrote = Some(w.wrote),
                                     !.printed = @ \cup w.printed]
         /\ author' =
              [author EXCEPT ![bench.label] =
                 IF CURRENT_SAMPLE \notin DOMAIN w.disk[bench.label] THEN NoAuthor
                 ELSE IF w.disk[bench.label] = disk[bench.label] THEN @
                 ELSE [by |-> inv,
                       data |-> IF w.wrote THEN sampling_data ELSE NoValue]]
    /\ pc' = "done"
    /\ trace' = Append(trace, "write")
    /\ UNCHANGED <<suite, budget, inv, bench, clock, wu, iters, run_st, sampling_data, calls>>

\* bench_with_configuration_labeled returns to the program, which may go on
\* to its next bench call; the invocation's locals are dropped.
Return ==
    /\ pc = "done"
    /\ pc' = "idle"
    /\ bench' = NoValue
    /\ clock' = 0
    /\ wu' = NoValue
    /\ iters' = NoValue
    /\ run_st' = NoValue
    /\ sampling_data' = NoValue
    /\ calls' = NoCalls
    /\ trace' = <<>>
    /\ report' = NoValue
    /\ UNCHANGED <<suite, budget, inv, disk, author>>

\* The panic or abort ended the process; the program is run again later and
\* finds the store as the ended process left it.
Restart ==
    /\ pc = "crashed"
    /\ pc' = "idle"
    /\ bench' = NoValue
    /\ clock' = 0
    /\ wu' = NoValue
    /\ iters' = NoValue
    /\ run_st' = NoValue
    /\ sampling_data' = NoValue
    /\ calls' = NoCalls
    /\ trace' = <<>>
    /\ report' = NoValue
    /\ UNCHANGED <<suite, budget, inv, disk, author>>

\* Before an invocation a label's current file is put or replaced from
\* outside the program (a damaged disk, another program's file): here by a
\* file that is only a count, u64::MAX.  One such file exists at a time.
Damage ==
    /\ pc = "idle"
    /\ inv < budget
    /\ \A l \in StoreLabels :
         CURRENT_SAMPLE \in DOMAIN disk[l] => disk[l][CURRENT_SAMPLE] # U64Max
    /\ \E l \in StoreLabels :
         /\ disk' = [disk EXCEPT ![l] = PutFile(@, CURRENT_SAMPLE, U64Max)]
         /\ author' = [author EXCEPT ![l] = NoAuthor]
    /\ UNCHANGED <<suite, budget, pc, inv, bench, clock, wu, iters, run_st, sampling_data,
                   calls, trace, report>>

others == <<serVars, schedVars, storeVars, anaVars, loopVars>>

Next ==
    \/ Start /\ UNCHANGED others
    \/ WarmUpBatch /\ UNCHANGED others
    \/ Schedule /\ UNCHANGED others
    \/ RunSetupCall /\ UNCHANGED others
    \/ RunStartTimer /\ UNCHANGED others
    \/ RunWorkCall /\ UNCHANGED others
    \/ RunStopTimer /\ UNCHANGED others
    \/ RunReturn /\ UNCHANGED others
    \/ DumpSimple /\ UNCHANGED others
    \/ Analyze /\ UNCHANGED others
    \/ ReadLast /\ UNCHANGED others
    \/ WriteNew /\ UNCHANGED others
    \/ Return /\ UNCHANGED others
    \/ Restart /\ UNCHANGED others
    \/ Damage /\ UNCHANGED others

Init ==
    /\ NotStarted /\ suite = "all" /\ budget = MaxInvocations
    /\ StoreIdle /\ SerIdle /\ SchedIdle /\ AnaIdle /\ LoopsIdle

Spec == Init /\ [][Next]_vars

(***************************************************************************)
(* SeriesSpec: the same pipeline, followed for a longer series of          *)
(* invocations, of the program with the four bench calls of SeriesCalls.   *)
(***************************************************************************)
SeriesInit ==
    /\ NotStarted /\ suite = "series" /\ budget = MaxSeries
    /\ StoreIdle /\ SerIdle /\ SchedIdle /\ AnaIdle /\ LoopsIdle

SeriesSpec == SeriesInit /\ [][Next]_vars

(***************************************************************************)
(* ItersSpec: calculate_iters_and_total_iters on the results a warm-up can *)
(* return (2^k - 1 iterations in any elapsed time, zero included) and      *)
(* configurations with any measurement time.                               *)
(***************************************************************************)
WuIterations == {1, 3, 7}

ItersInputs ==
    [wu : [elapsed : 0..MaxWuElapsed, iterations : WuIterations],
     cfg : [warm_up_time : {0}, measurement_time : 0..MaxTargetNs,
            num_samples : 1..MaxSamples, dump_results_to_disk : {FALSE},
            max_iterations : MaxIterationsOptions]]

ItersInit ==
    /\ sched_in \in ItersInputs
    /\ sched_ret = NoValue
    /\ AnaIdle /\ SerIdle /\ StoreIdle /\ BenchIdle /\ LoopsIdle

CalculateItersAndTotalIters ==
    /\ sched_ret = NoValue
    /\ sched_ret' = calculate_iters_and_total_iters(
                       sched_in.cfg, mean_execution_time_of(sched_in.wu),
                       sched_in.cfg.num_samples)
    /\ UNCHANGED sched_in

ItersNext ==
    CalculateItersAndTotalIters /\ UNCHANGED <<serVars, disk, storeVars, benchVars, anaVars, loopVars>>

ItersSpec == ItersInit /\ [][ItersNext]_vars

(***************************************************************************)
(* AnalysisSpec: the analysis functions, each called once on arguments     *)
(* drawn from small sets.                                                  *)
(***************************************************************************)
\* The design's worked example of the summary.
DocumentedSample == SamplingData(<<1, 2, 3>>, <<10, 10, 12>>)

AnalysisCounts == {1, 2}
AnalysisTimes == {0, 3, 4}

AnalysisDatas ==
    UNION {{SamplingData(a, b) : a \in [1..n -> AnalysisCounts],
                                 b \in [1..n -> AnalysisTimes]} : n \in 0..MaxLen}
      \cup {DocumentedSample}

\* t values: -1, 0, 1/2 and NaN (the t of a sample without variance)
TValues == {Rat(-1, 1), Rat(0, 1), Rat(1, 2), NaN}

\* The data of a comparison: one or two samples of one iteration each.  No
\* two of their means differ by exactly 1 percent: in f64, (new / old - 1) * 100
\* is never exactly 1.0 or -1.0 (no f64 q near 1.01 or 0.99 gives it, as
\* 100 k is never 2^52 or 2^53), which exact fractions would not reproduce.
CompareTimes == {200, 201, 210}

CompareLens == {1, 2}

CompareDatas ==
    UNION {{SamplingData([i \in 1..n |-> 1], b) : b \in [1..n -> CompareTimes]} :
              n \in CompareLens}

\* The draws of one resample of n values: in order, reversed, the halves
\* exchanged, the first value alone, and the first value twice before the
\* others.
ResampleDraws(n) ==
    {[i \in 1..n |-> i], [i \in 1..n |-> n + 1 - i],
     [i \in 1..n |-> ((i - 1 + (n \div 2)) % n) + 1], [i \in 1..n |-> 1],
     [i \in 1..n |-> IF i <= 2 THEN 1 ELSE i]}

\* The comparisons of the new data a with the stored data b.
CompareInputs(a, b) ==
    {[fn |-> "compare_sampling_data", data |-> a, last |-> b, draws |-> r] :
        r \in SeqsUpTo(ResampleDraws(Len(a.samples) + Len(b.samples)), MaxResamples)}

\* The characters of labels: the illegal ones, two control characters, dot,
\* space, 'a' and DEL.
LabelChars == ILLEGAL \cup {1, 31, 46, 32, 97, 127}

\* The samples of tests::calculate_t, in hundredths.
TestSampleA == <<1970, 2040, 1960, 1780, 1850, 1890, 1830, 1890, 1950, 2195>>

TestSampleB ==
    <<2830, 2670, 2010, 2330, 2520, 2210, 1770, 2760, 2060, 1370, 2320, 1750, 2060,
      1800, 2390, 2160, 2430, 2040, 2390, 1330>>

Hundredths(q) == [i \in 1..Len(q) |-> Rat(q[i], 100)]

\* The values of the samples of a t value
SampleValues64 == {Rat(1, 1), Rat(2, 1), Rat(9, 2)}

\* The values of rng.next(): they count up from a seed by a stride.
RngSeeds == {0, 5, 1000003}
RngStrides == {0, 1, 2}

RngStreams(len) ==
    {[i \in 1..len |-> seed + i * stride] : seed \in RngSeeds, stride \in RngStrides}

\* The samples that are resampled: none, one and two values, with repeats.
ResampleSamples ==
    {<<>>, <<Rat(1, 1)>>, <<Rat(1, 1), Rat(2, 1)>>, <<Rat(9, 2), Rat(1, 1)>>,
     <<Rat(2, 1), Rat(2, 1)>>}

ResampleInputs(a, b) ==
    {[fn |-> "resample", sample_a |-> a, sample_b |-> b, times |-> times, rng |-> rng] :
        times \in 0..MaxResamples,
        rng \in RngStreams(MaxResamples * (Len(a) + Len(b)))}

\* The timings compared: one to MaxLen iterations, at a mean of 100 ns and
\* at means 10 and 2 percent above and below it.
TimingMeans == {90, 98, 100, 102, 110}

TimingDatas ==
    {TimingData(mean, mean, mean * iterations, iterations) :
        mean \in TimingMeans, iterations \in 1..MaxLen}

\* The values of a sample whose median is taken
MedianValues == {Rat(-1, 2), Rat(1, 1), Rat(2, 1), INFINITY, NaN}

AnalysisFns ==
    {"simple_analyze_sampling_data", "calculate_p_value", "compare_sampling_data",
     "bench", "calculate_t_value", "resample", "calculate_median",
     "compare_timing_data"}

\* The calls of a function that the specification looks at.
AnalysisInputs(fn) ==
    CASE fn = "simple_analyze_sampling_data" ->
           {[fn |-> fn, data |-> d] : d \in AnalysisDatas}
      [] fn = "calculate_p_value" ->
           {[fn |-> fn, total_t |-> t, distribution |-> q] :
               t \in TValues, q \in SeqsUpTo(TValues, MaxDist)}
      [] fn = "compare_sampling_data" ->
           UNION {CompareInputs(a, b) : a \in CompareDatas, b \in CompareDatas}
      [] fn = "calculate_t_value" ->
           {[fn |-> fn, sample_a |-> a, sample_b |-> b] :
               a \in SeqsUpTo(SampleValues64, MaxLen),
               b \in SeqsUpTo(SampleValues64, MaxLen)}
             \cup {[fn |-> fn, sample_a |-> Hundredths(TestSampleA),
                     sample_b |-> Hundredths(TestSampleB)]}
      [] fn = "resample" ->
           UNION {ResampleInputs(a, b) : a \in ResampleSamples, b \in ResampleSamples}
      [] fn = "calculate_median" ->
           {[fn |-> fn, sample |-> q] : q \in SeqsUpTo(MedianValues, MaxDist)}
      [] fn = "compare_timing_data" ->
           {[fn |-> fn, data |-> d, old |-> o] : d \in TimingDatas, o \in TimingDatas}
      [] fn = "bench" ->
           {[fn |-> fn, entry |-> e, label |-> l] :
               e \in EntryPoints, l \in SeqsUpTo(LabelChars, MaxLabelLen)}

AnalysisInit ==
    /\ \E fn \in AnalysisFns : ana_in \in AnalysisInputs(fn)
    /\ ana_ret = NoValue
    /\ SerIdle /\ SchedIdle /\ StoreIdle /\ BenchIdle /\ LoopsIdle

SimpleAnalyze ==
    /\ ana_in.fn = "simple_analyze_sampling_data"
    /\ ana_ret = NoValue
    /\ ana_ret' = simple_analyze_sampling_data(ana_in.data)
    /\ UNCHANGED ana_in

CalculatePValue ==
    /\ ana_in.fn = "calculate_p_value"
    /\ ana_ret = NoValue
    /\ ana_ret' = calculate_p_value(ana_in.total_t, ana_in.distribution)
    /\ UNCHANGED ana_in

CompareSamplingData ==
    /\ ana_in.fn = "compare_sampling_data"
    /\ ana_ret = NoValue
    /\ ana_ret' = compare_sampling_data(ana_in.data, ana_in.last, ana_in.draws)
    /\ UNCHANGED ana_in

CalculateTValue ==
    /\ ana_in.fn = "calculate_t_value"
    /\ ana_ret = NoValue
    /\ ana_ret' = calculate_t_value(ana_in.sample_a, ana_in.sample_b)
    /\ UNCHANGED ana_in

CompareTimingData ==
    /\ ana_in.fn = "compare_timing_data"
    /\ ana_ret = NoValue
    /\ ana_ret' = compare_timing_data(ana_in.data, ana_in.old)
    /\ UNCHANGED ana_in

CalculateMedian ==
    /\ ana_in.fn = "calculate_median"
    /\ ana_ret = NoValue
    /\ ana_ret' = calculate_median(ana_in.sample)
    /\ UNCHANGED ana_in

Resample ==
    /\ ana_in.fn = "resample"
    /\ ana_ret = NoValue
    /\ ana_ret' = resample_with_rng(ana_in.sample_a, ana_in.sample_b, ana_in.times,
                                    ana_in.rng)
    /\ UNCHANGED ana_in

\* The first statement of a bench function: the label that it goes on with.
EnterBench ==
    /\ ana_in.fn = "bench"
    /\ ana_ret = NoValue
    /\ ana_ret' = [label |-> output_label(ana_in.entry, ana_in.label)]
    /\ UNCHANGED ana_in

AnalysisNext ==
    \/ EnterBench /\ UNCHANGED <<serVars, schedVars, disk, storeVars, benchVars, loopVars>>
    \/ CalculateTValue /\ UNCHANGED <<serVars, schedVars, disk, storeVars, benchVars, loopVars>>
    \/ Resample /\ UNCHANGED <<serVars, schedVars, disk, storeVars, benchVars, loopVars>>
    \/ CalculateMedian /\ UNCHANGED <<serVars, schedVars, disk, storeVars, benchVars, loopVars>>
    \/ CompareTimingData /\ UNCHANGED <<serVars, schedVars, disk, storeVars, benchVars, loopVars>>
    \/ SimpleAnalyze /\ UNCHANGED <<serVars, schedVars, disk, storeVars, benchVars, loopVars>>
    \/ CompareSamplingData /\ UNCHANGED <<serVars, schedVars, disk, storeVars, benchVars, loopVars>>
    \/ CalculatePValue /\ UNCHANGED <<serVars, schedVars, disk, storeVars, benchVars, loopVars>>

AnalysisSpec == AnalysisInit /\ [][AnalysisNext]_vars

(***************************************************************************)
(* WarmUpSpec: run_warm_up on a closure of a constant cost, one turn of    *)
(* its loop at a time.  run_iterations is an unsigned integer of           *)
(* RunIterationsBits bits that wraps as the program's u64 does.  What the  *)
(* timer measures around a batch is the time of the calls and the time     *)
(* between its own two readings of the clock, which is nothing or one tick *)
(* of the clock.                                                           *)
(***************************************************************************)
TimerOverheads == {0, 1}

\* warmup_time is 0..MaxWarmUpTime: up to more than the time of all the calls
\* that the batches make before run_iterations wraps, at a cost of 1.
MaxWarmUpTime == 2 ^ RunIterationsBits

\* u64::wrapping_mul
wrapping_mul(a, b) == (a * b) % (2 ^ RunIterationsBits)

WarmUpInit ==
    /\ \E cost \in 0..MaxWorkCost, warmup_time \in 0..MaxWarmUpTime :
         warm = [cost |-> cost, warmup_time |-> warmup_time, pc |-> "loop",
                 elapsed |-> 0, iterations |-> 0, run_iterations |-> 1,
                 before |-> 0, timer |-> 0]
    /\ timed = NoValue
    /\ SerIdle /\ SchedIdle /\ AnaIdle /\ StoreIdle /\ BenchIdle

\* A timer that counts the time of the calls only.
start_elapsed_of_calls(run_iterations, cost, overhead) == run_iterations * cost

\* start.elapsed() after the batch
start_elapsed(run_iterations, cost, overhead) == run_iterations * cost + overhead

\* A turn that looks at the budget before it adds the batch.
WarmUpTurn_budget_first(overhead) ==
    /\ warm # NoValue
    /\ warm.pc = "loop"
    /\ warm' = [warm EXCEPT
                  !.elapsed = @ + start_elapsed(warm.run_iterations, warm.cost, overhead),
                  !.iterations = @ + warm.run_iterations,
                  !.run_iterations = wrapping_mul(@, 2),
                  !.before = warm.elapsed,
                  !.timer = @ + start_elapsed(warm.run_iterations, warm.cost, overhead)
                              - warm.run_iterations * warm.cost,
                  !.pc = IF warm.iterations > 0 /\ warm.elapsed >= warm.warmup_time
                         THEN "returned" ELSE "loop"]
    /\ UNCHANGED timed

\* One turn of the loop; before is the elapsed time the turn started with and
\* timer the part of elapsed that is not the time of calls (history).
WarmUpTurn(overhead) ==
    /\ warm # NoValue
    /\ warm.pc = "loop"
    /\ LET took == start_elapsed(warm.run_iterations, warm.cost, overhead)
           elapsed == warm.elapsed + took
       IN warm' = [warm EXCEPT
                     !.elapsed = elapsed,
                     !.iterations = @ + warm.run_iterations,
                     !.run_iterations = wrapping_mul(@, 2),
                     !.before = warm.elapsed,
                     !.timer = @ + took - warm.run_iterations * warm.cost,
                     !.pc = IF elapsed >= warm.warmup_time THEN "returned" ELSE "loop"]
    /\ UNCHANGED timed

WarmUpNext ==
    \E overhead \in TimerOverheads :
       WarmUpTurn(overhead)
         /\ UNCHANGED <<serVars, schedVars, disk, storeVars, benchVars, anaVars>>

WarmUpSpec == WarmUpInit /\ [][WarmUpNext]_vars

\* The thread does nothing but the loop, so the loop keeps taking turns; the
\* clock follows real time and a turn takes time, so turns in which the clock
\* moves between Instant::now() and start.elapsed() keep coming.
WarmUpLiveSpec ==
    WarmUpSpec
      /\ WF_vars(WarmUpTurn(1)
                   /\ UNCHANGED <<serVars, schedVars, disk, storeVars, benchVars, anaVars>>)

(***************************************************************************)
(* TimedSpec: a TimedIterator over a finite iterator, made by              *)
(* timed_labeled or timed_persisted_labeled, and a consumer that calls     *)
(* next() as often as it likes, also after a None.  The wrapped iterator   *)
(* is fused: once drained it stays drained.  An item takes as many ns to   *)
(* produce as its value.                                                   *)
(***************************************************************************)
CURRENT_RESULTS == "current-results"
OLD_RESULTS     == "old-results"

\* u128::MAX = 2^128 - 1 is kept as the number it is congruent to modulo
\* 2^128; its little-endian bytes are 16 times 255.
U128_MAX == -1

\* a < b of u128
u128_lt(a, b) ==
    IF a = U128_MAX THEN FALSE ELSE IF b = U128_MAX THEN TRUE ELSE a < b

\* u128::to_le_bytes
u128_to_le_bytes(v) == to_le_bytes(v, 16)

\* u128::from_le_bytes
u128_from_le_bytes(bytes) ==
    IF \A i \in 1..Len(bytes) : bytes[i] = 255 THEN U128_MAX ELSE from_le_bytes(bytes)

ser_timing_data(run_data) ==
    u128_to_le_bytes(run_data.min_nanos) \o u128_to_le_bytes(run_data.max_nanos)
      \o u128_to_le_bytes(run_data.elapsed) \o u128_to_le_bytes(run_data.iterations)

try_de_timing_data(buf) ==
    IF Len(buf) # 64 THEN Err("Unexpected buffer len for serialized timing data")
    ELSE Ok(TimingData(u128_from_le_bytes(SubSeq(buf, 1, 16)),
                       u128_from_le_bytes(SubSeq(buf, 17, 32)),
                       u128_from_le_bytes(SubSeq(buf, 33, 48)),
                       u128_from_le_bytes(SubSeq(buf, 49, 64))))

try_read_last_results(store, label, env) ==
    LET maybe_data == try_read(store, label, CURRENT_RESULTS, env) IN
    IF maybe_data.tag = "Err" THEN maybe_data
    ELSE IF maybe_data.val = NoValue THEN Ok(NoValue)
    ELSE LET de == try_de_timing_data(maybe_data.val.val)
         IN IF de.tag = "Ok" THEN Ok(Some(de.val)) ELSE de

\* try_write_results returns nothing: a failed write is only printed.
try_write_results(store, label, data, env) ==
    try_write(store, label, ser_timing_data(data), CURRENT_RESULTS, OLD_RESULTS, env).disk

TimedItems == {1, 2, 3}

\* What the label's directory holds when the iterator is made.
StoredResults ==
    {EmptyDir,
     PutFile(EmptyDir, CURRENT_RESULTS, ser_timing_data(TimingData(4, 4, 4, 1)))}

TimedInit ==
    /\ \E persisted \in BOOLEAN, inner \in SeqsUpTo(TimedItems, MaxLen),
          dir \in StoredResults :
         /\ timed = [persisted |-> persisted, given |-> inner, inner |-> inner,
                     iterations |-> 0, min_nanos |-> U128_MAX, max_nanos |-> 0,
                     elapsed |-> 0, yielded |-> <<>>, nones |-> 0,
                     reports |-> <<>>, reads |-> 0, writes |-> 0]
         /\ disk = [l \in StoreLabels |-> IF l = TestLabel THEN dir ELSE EmptyDir]
    /\ warm = NoValue
    /\ store_log = <<>> /\ store_ret = NoValue /\ writers = NoValue
    /\ SerIdle /\ SchedIdle /\ AnaIdle /\ BenchIdle

\* One call of TimedIterator::next.  yielded, nones, reports, reads and writes
\* are history: the items returned, the Nones returned, the TimingData
\* dumped with what was read, and the accesses to the store.
TimedIteratorNext ==
    /\ timed # NoValue
    /\ IF timed.inner # <<>>
       THEN LET item == Head(timed.inner)
                run_elapsed_nanos == item
            IN /\ timed' = [timed EXCEPT
                     !.inner = Tail(@),
                     !.min_nanos = IF u128_lt(run_elapsed_nanos, @)
                                   THEN run_elapsed_nanos ELSE @,
                     !.max_nanos = IF u128_lt(@, run_elapsed_nanos)
                                   THEN run_elapsed_nanos ELSE @,
                     !.elapsed = @ + run_elapsed_nanos,
                     !.iterations = @ + 1,
                     !.yielded = Append(@, item)]
               /\ UNCHANGED disk
       ELSE LET data == TimingData(timed.min_nanos, timed.max_nanos, timed.elapsed,
                                   timed.iterations)
                maybe_old == try_read_last_results(disk, TestLabel,
                                                   [dir |-> TRUE, read |-> TRUE])
            IN /\ timed.nones < MaxNones
               /\ IF timed.persisted
                  THEN /\ timed' = [timed EXCEPT
                             !.nones = @ + 1,
                             !.reports = Append(@, [data |-> data, old |-> maybe_old]),
                             !.reads = @ + 1,
                             !.writes = @ + 1]
                       /\ disk' = try_write_results(
                                     disk, TestLabel, data,
                                     [dir |-> TRUE, meta |-> TRUE, rename |-> TRUE,
                                      write |-> "ok"])
                  ELSE /\ timed' = [timed EXCEPT
                             !.nones = @ + 1,
                             !.reports = Append(@, [data |-> data, old |-> NoValue])]
                       /\ UNCHANGED disk
    /\ UNCHANGED warm

TimedNext ==
    TimedIteratorNext /\ UNCHANGED <<serVars, schedVars, storeVars, benchVars, anaVars>>

TimedSpec == TimedInit /\ [][TimedNext]_vars

(***************************************************************************)
(* Claims about the binary format (under SerSpec).                        *)
(***************************************************************************)
Decoded == ser_stage \in {"decoded", "decoded_damaged"}

\* C2: deserializing the serialization of a SamplingData whose samples and
\* times have the same length succeeds and returns that SamplingData; the
\* empty SamplingData serializes to the 8-byte count alone.
C2_RoundTrip ==
    /\ (ser_stage = "decoded" /\ Len(ser_in.samples) = Len(ser_in.times))
          => ser_ret = Ok(ser_in)
    /\ (ser_stage \in {"serialized", "decoded"}
          /\ ser_in = SamplingData(<<>>, <<>>))
          => ser_buf = <<0, 0, 0, 0, 0, 0, 0, 0>>

C2_Witness ==
    /\ ser_stage = "decoded"
    /\ ser_in = SamplingData(<<258, 1>>, <<66051, 0>>)
    /\ ser_ret = Ok(ser_in)

\* The buffer's length is not 8 + 8N + 16N for the count N in its first 8 bytes.
WrongLength(buf) ==
    \/ Len(buf) < 8
    \/ ~FitsModel(SubSeq(buf, 1, 8))
    \/ Len(buf) # 8 + 24 * LeValue(SubSeq(buf, 1, 3))

\* C3: try_de_sampling_data returns decoded data or an error for every
\* buffer, an error for every buffer of the wrong length, and never panics.
C3_ErrorNeverPanic ==
    Decoded => /\ ser_ret.tag \in {"Ok", "Err"}
               /\ WrongLength(ser_buf) => ser_ret.tag = "Err"

(***************************************************************************)
(* Claims about the scheduler (under SchedSpec).                          *)
(***************************************************************************)
\* d * total * mean >= target, on the rational mean num/den.
ReachesTarget(in, d) ==
    d * TotalRuns(in.num_samples) * in.met.num >= in.target_ns * in.met.den

\* C8: the schedule is [1*d, ..., n*d] for the smallest d >= 1 with
\* d * (n(n+1)/2) * mean_cost_ns >= target_time_ns; the documented example
\* yields [7, 14, 21, 28, 35].
C8_SmallestStep ==
    sched_ret # NoValue =>
      LET s == sched_ret.iters
          d == s[1]
      IN /\ Len(s) = sched_in.num_samples
         /\ d >= 1
         /\ \A i \in 1..Len(s) : s[i] = i * d
         /\ ReachesTarget(sched_in, d)
         /\ d > 1 => ~ReachesTarget(sched_in, d - 1)
         /\ sched_in = DocumentedSchedule => s = <<7, 14, 21, 28, 35>>

C8_Witness ==
    /\ sched_in = DocumentedSchedule
    /\ sched_ret # NoValue
    /\ sched_ret.iters = <<7, 14, 21, 28, 35>>

\* C9 as stated: when the minimal step is 1 the number of samples is shrunk
\* (policy (b)) and the schedule has the reduced number of entries.
C9_ShrinksSamples ==
    (sched_ret # NoValue /\ ReachesTarget(sched_in, 1)) =>
       Len(sched_ret.iters) =
          ShrunkNumSamples(sched_in.met, sched_in.num_samples, sched_in.target_ns)

\* C9 amended: when the minimal step is 1 the scheduler follows policy (a):
\* it warns and keeps every requested sample, returning [1, 2, ..., n].
C9_WarnsAndProceeds ==
    (sched_ret # NoValue /\ ReachesTarget(sched_in, 1)) =>
       /\ sched_ret.warned
       /\ sched_ret.iters = [a \in 1..sched_in.num_samples |-> a]

C9_Witness ==
    /\ sched_ret # NoValue
    /\ ReachesTarget(sched_in, 1)
    /\ sched_in.num_samples >= 3
    /\ sched_in.target_ns > 0
    /\ Len(sched_ret.iters) = sched_in.num_samples

(***************************************************************************)
(* Claims about the result store (under DiskSpec).                        *)
(***************************************************************************)
Writes == Len(store_log)

LastWrite == store_log[Writes]

StoredDir == disk[TestLabel]

AllWrote == \A i \in 1..Writes : store_log[i].wrote

\* C4: a read that the file system does not fail returns the data of the most
\* recent successful write, never the different data of the old slot, and
\* None (not an error) when the label has no current file.
C4_ReadsCurrentSlot ==
    store_ret # NoValue =>
      LET r == store_ret.result
          e == store_ret.env
      IN /\ (e.dir /\ CURRENT_SAMPLE \notin DOMAIN StoredDir) => r = Ok(NoValue)
         /\ (e.dir /\ e.read /\ Writes >= 1 /\ LastWrite.wrote)
               => r = Ok(Some(LastWrite.data))
         /\ (r.tag = "Ok" /\ r.val # NoValue /\ OLD_SAMPLE \in DOMAIN StoredDir
               /\ StoredDir[OLD_SAMPLE] # StoredDir[CURRENT_SAMPLE])
               => ser_sampling_data(r.val.val) # StoredDir[OLD_SAMPLE]

C4_Witness ==
    /\ store_ret # NoValue
    /\ Writes >= 2
    /\ AllWrote
    /\ store_log[Writes - 1].data # LastWrite.data
    /\ store_ret.result = Ok(Some(LastWrite.data))
    /\ OLD_SAMPLE \in DOMAIN StoredDir
    /\ StoredDir[OLD_SAMPLE] = ser_sampling_data(store_log[Writes - 1].data)

\* C5 as stated: after k >= 2 successful writes the current slot holds the
\* k-th data and the old slot the (k-1)-th, in at most these two files.
C5_OldHoldsPrevious ==
    (Writes >= 2 /\ AllWrote) =>
       /\ DOMAIN StoredDir = {CURRENT_SAMPLE, OLD_SAMPLE}
       /\ StoredDir[CURRENT_SAMPLE] = ser_sampling_data(LastWrite.data)
       /\ StoredDir[OLD_SAMPLE] = ser_sampling_data(store_log[Writes - 1].data)

\* C5 amended: a successful write leaves its data in the current slot; when
\* its rotation succeeded the old slot holds the file that was current (the
\* data of the write before, if that one succeeded), otherwise the old slot
\* is as it was; the directory holds no file but these two.
C5_RotatesWhenRenamed ==
    /\ DOMAIN StoredDir \subseteq {CURRENT_SAMPLE, OLD_SAMPLE}
    /\ (Writes >= 1 /\ LastWrite.wrote) =>
         /\ CURRENT_SAMPLE \in DOMAIN StoredDir
         /\ StoredDir[CURRENT_SAMPLE] = ser_sampling_data(LastWrite.data)
         /\ LastWrite.rotated =>
              /\ OLD_SAMPLE \in DOMAIN StoredDir
              /\ StoredDir[OLD_SAMPLE] = LastWrite.before[CURRENT_SAMPLE]
              /\ (Writes >= 2 /\ store_log[Writes - 1].wrote) =>
                    StoredDir[OLD_SAMPLE] =
                       ser_sampling_data(store_log[Writes - 1].data)
         /\ ~LastWrite.rotated =>
              RemoveFile(StoredDir, CURRENT_SAMPLE)
                 = RemoveFile(LastWrite.before, CURRENT_SAMPLE)

C5_Witness ==
    /\ Writes >= 3
    /\ AllWrote
    /\ LastWrite.rotated
    /\ store_log[Writes - 1].data # LastWrite.data
    /\ StoredDir[OLD_SAMPLE] = ser_sampling_data(store_log[Writes - 1].data)
    /\ StoredDir[CURRENT_SAMPLE] = ser_sampling_data(LastWrite.data)

\* The last write found the current file and could not move it.
RenameFailedInLastWrite == Writes > 0 /\ LastWrite.warned

SlotOf(dir, name) == IF name \in DOMAIN dir THEN Some(dir[name]) ELSE NoValue

\* C26: when the current file exists and the rename to the old slot fails,
\* try_write only prints the failure: it goes on to write the new data over
\* the current file and returns what the write returns, Ok when the write
\* succeeds; the old slot is as it was.
C26_FailedRotationIsNotFatal ==
    RenameFailedInLastWrite =>
       /\ CURRENT_SAMPLE \in DOMAIN LastWrite.before
       /\ ~LastWrite.rotated
       /\ SlotOf(StoredDir, OLD_SAMPLE) = SlotOf(LastWrite.before, OLD_SAMPLE)
       /\ LastWrite.write # "none"
       /\ LastWrite.wrote <=> LastWrite.write = "ok"
       /\ LastWrite.write = "ok" =>
            StoredDir[CURRENT_SAMPLE] = ser_sampling_data(LastWrite.data)

C26_Witness ==
    /\ RenameFailedInLastWrite
    /\ LastWrite.wrote
    /\ StoredDir[CURRENT_SAMPLE] = ser_sampling_data(LastWrite.data)
    /\ LastWrite.before[CURRENT_SAMPLE] # ser_sampling_data(LastWrite.data)
    /\ OLD_SAMPLE \in DOMAIN StoredDir
    /\ StoredDir[OLD_SAMPLE] # LastWrite.before[CURRENT_SAMPLE]

(***************************************************************************)
(* Claims about the benchmark pipeline (under Spec and SeriesSpec).        *)
(***************************************************************************)
MaxIt == bench.cfg.max_iterations.val

HasCeiling == bench # NoValue /\ bench.cfg.max_iterations # NoValue

\* C1: run and run_with_setup return the schedule they were given as samples
\* (same values, same order) and one elapsed time per sample at the sample's
\* index: with a constant cost per call, the time of sample i is its
\* iteration count times that cost.
C1_SamplesAreTheSchedule ==
    /\ pc = "run" => Len(run_st.times) = run_st.idx - 1
    /\ sampling_data # NoValue =>
         /\ sampling_data.samples = iters.iters
         /\ Len(sampling_data.times) = Len(sampling_data.samples)
         /\ \A i \in 1..Len(sampling_data.samples) :
               sampling_data.times[i] = sampling_data.samples[i] * bench.cost

C1_Witness ==
    /\ sampling_data # NoValue
    /\ bench.with_setup
    /\ bench.cost > 0
    /\ Len(sampling_data.samples) >= 2
    /\ sampling_data.times[1] # sampling_data.times[2]
    /\ calls.setup_run = SeqSum(sampling_data.samples)

\* C6 as stated: no failure of the store aborts an invocation: the read
\* never ends the invocation, a failed read leaves the analysis reported and
\* only the comparison skipped, and the write is attempted and its failure
\* is a printed warning.
C6_StoreFailuresNeverAbort ==
    /\ pc # "crashed"
    /\ (report # NoValue /\ report.read # NoValue /\ report.read.tag # "Ok") =>
          /\ report.analysis = simple_analyze_sampling_data(sampling_data)
          /\ report.compared = NoValue
    /\ (pc = "done" /\ bench.cfg.dump_results_to_disk) =>
          /\ report.wrote # NoValue
          /\ report.wrote = Some(FALSE) => "Failed to write sampling data" \in report.printed

PipelineOrder == <<"warm_up", "schedule", "run", "analysis", "read", "write">>

IsPrefix(a, b) == Len(a) <= Len(b) /\ SubSeq(b, 1, Len(a)) = a

\* C7: the steps of an invocation happen in the order warm-up, scheduling,
\* run, analysis, read, write; the read precedes the write, so a comparison
\* is made against the data that the latest earlier invocation wrote under
\* the label (invocation k-1 when that one wrote), never against the
\* invocation's own data, and it is made whenever that data is there and
\* the read succeeds.
C7_ReadPrecedesWrite ==
    /\ IsPrefix(trace, PipelineOrder)
    /\ (pc = "done" /\ bench.cfg.dump_results_to_disk) => trace = PipelineOrder
    /\ (report # NoValue /\ report.compared # NoValue) =>
          /\ report.compared.by \in 1..(inv - 1)
          /\ report.compared.last = report.compared.written
    /\ (pc = "write" /\ report.read.tag = "Ok"
          /\ author[bench.label].data # NoValue) =>
          /\ report.compared # NoValue
          /\ report.compared.by = author[bench.label].by
          /\ report.compared.last = author[bench.label].data

C7_Witness ==
    /\ pc = "write"
    /\ inv = 3
    /\ trace = SubSeq(PipelineOrder, 1, 5)
    /\ report.compared # NoValue
    /\ report.compared.by = inv - 1
    /\ report.compared.last = author[bench.label].data
    /\ report.compared.last # sampling_data
    /\ OLD_SAMPLE \in DOMAIN disk[bench.label]
    /\ disk[bench.label][OLD_SAMPLE] # ser_sampling_data(report.compared.last)
    /\ disk[bench.label][OLD_SAMPLE] # ser_sampling_data(sampling_data)

C11_WarmUpRunsABatch ==
    (wu # NoValue /\ pc # "warm_up") =>
       /\ wu.iterations >= 1
       /\ mean_execution_time_of(wu).den # 0
       /\ calls.warm_up = wu.iterations
       /\ bench.cfg.warm_up_time = 0 =>
             /\ wu.iterations = 1
             /\ wu.run_iterations = 2

C11_Witness ==
    /\ pc = "schedule"
    /\ bench.cfg.warm_up_time = 0
    /\ wu = [elapsed |-> 0, iterations |-> 1, run_iterations |-> 2]
    /\ calls.warm_up = 1

\* The scheduler was reached: max_iterations is not set.
Scheduled == sched_ret # NoValue /\ sched_in.cfg.max_iterations = NoValue

StepOf(ret) == ret.iters[1]

\* ceil(target_time_ns / (n(n+1)/2))
StepCeiling == CeilDiv(sched_in.cfg.measurement_time, TotalRuns(sched_in.cfg.num_samples))

\* The mean cost of the warm-up is below 1 ns.
BelowOneNs == sched_in.wu.elapsed < sched_in.wu.iterations

\* C12 as stated: the mean cost is clamped to 1.0 ns before the scheduler, so
\* the step d never exceeds ceil(target_time_ns / (n(n+1)/2)).
C12_StepWithinCeiling ==
    Scheduled => StepOf(sched_ret) <= StepCeiling

\* C12 amended: the mean cost is clamped to 1.0 ns before the scheduler, for
\* every warm-up result, zero elapsed time included: a mean below 1 ns gives
\* the schedule of a mean of exactly 1 ns, and the step d never exceeds
\* ceil(target_time_ns / (n(n+1)/2)) or 1, whichever is larger (it is 1 when
\* the target is 0).
C12_ClampedStepWithinCeiling ==
    Scheduled =>
       LET n == sched_in.cfg.num_samples
           d == StepOf(sched_ret)
       IN /\ d >= 1
          /\ d <= Max(StepCeiling, 1)
          /\ sched_ret.iters = [a \in 1..n |-> a * d]
          /\ BelowOneNs => d = Max(StepCeiling, 1)
          /\ sched_in.cfg.measurement_time = 0 => d = 1

C12_Witness ==
    /\ Scheduled
    /\ sched_in.wu.elapsed = 0
    /\ sched_in.cfg.num_samples >= 2
    /\ StepCeiling >= 2
    /\ StepOf(sched_ret) = StepCeiling

(***************************************************************************)
(* Claims about the analysis (under AnalysisSpec).                         *)
(***************************************************************************)
Analyzed == ana_in.fn = "simple_analyze_sampling_data" /\ ana_ret # NoValue

RECURSIVE SumOf(_)
SumOf(q) == IF q = <<>> THEN Rat(0, 1) ELSE f64_add(Head(q), SumOf(Tail(q)))

\* C13: for data with n >= 1 samples the summary holds, in order, the
\* per-sample averages times[i] / samples[i], their minimum, maximum and
\* arithmetic mean, and the sum of the times; the worked example yields
\* averages [10, 5, 4], min 4, max 10, mean 19/3.
C13_SummaryOfAverages ==
    (Analyzed /\ Len(ana_in.data.samples) >= 1) =>
       LET d == ana_in.data
           n == Len(d.samples)
           avg == ana_ret.per_sample_average
       IN /\ Len(avg) = n
          /\ \A i \in 1..n : avg[i].num * d.samples[i] = d.times[i] * avg[i].den
          /\ \E i \in 1..n : ana_ret.min = avg[i]
          /\ \A i \in 1..n : ~f64_lt(avg[i], ana_ret.min)
          /\ \E i \in 1..n : ana_ret.max = avg[i]
          /\ \A i \in 1..n : ~f64_lt(ana_ret.max, avg[i])
          /\ f64_mul(ana_ret.average, Rat(n, 1)) = SumOf(avg)
          /\ ana_ret.elapsed = SeqSum(d.times)
          /\ d = DocumentedSample =>
                /\ avg = <<Rat(10, 1), Rat(5, 1), Rat(4, 1)>>
                /\ ana_ret.min = Rat(4, 1)
                /\ ana_ret.max = Rat(10, 1)
                /\ ana_ret.average = [num |-> 19, den |-> 3]
                /\ ana_ret.elapsed = 32

C13_Witness ==
    /\ Analyzed
    /\ ana_in.data = DocumentedSample
    /\ ana_ret.average = [num |-> 19, den |-> 3]
    /\ ana_ret.min = [num |-> 4, den |-> 1]
    /\ ana_ret.max = [num |-> 10, den |-> 1]

PValued == ana_in.fn = "calculate_p_value" /\ ana_ret # NoValue

\* c: the number of distribution values strictly less than observed_t
LessThanObserved ==
    Cardinality({i \in 1..Len(ana_in.distribution) :
                    f64_lt(ana_in.distribution[i], ana_in.total_t)})

\* C14: for a non-empty distribution of length L the p-value is
\* 2 * min(c, L - c) / L and lies in [0, 1].
C14_TwoTailedPValue ==
    (PValued /\ Len(ana_in.distribution) >= 1) =>
       LET L == Len(ana_in.distribution)
           c == LessThanObserved
       IN /\ IsRat(ana_ret)
          /\ ana_ret.num * L = 2 * Min(c, L - c) * ana_ret.den
          /\ ana_ret.num >= 0
          /\ ana_ret.num <= ana_ret.den

C14_Witness ==
    /\ PValued
    /\ Len(ana_in.distribution) = 3
    /\ LessThanObserved = 2
    /\ ana_ret = [num |-> 2, den |-> 3]

Compared == ana_in.fn = "compare_sampling_data" /\ ana_ret # NoValue

\* The means of the new and of the stored data
NewMean == Rat(SeqSum(ana_in.data.times), Len(ana_in.data.times))

OldMean == Rat(SeqSum(ana_in.last.times), Len(ana_in.last.times))

\* The mean changed by more than the noise threshold, 1 percent of the old mean
ExceedsNoise ==
    Abs(NewMean.num * OldMean.den - OldMean.num * NewMean.den) * 100
        > NOISE_THRESHOLD * OldMean.num * NewMean.den

Significant == IsRat(ana_ret.p) /\ ana_ret.p.num * 100 <= 5 * ana_ret.p.den

Entered == ana_in.fn = "bench" /\ ana_ret # NoValue

\* / NUL : < > " \ | ? *
IllegalCharacters == {47, 0, 58, 60, 62, 34, 92, 124, 63, 42}

InvalidLabel(l) ==
    \/ \E i \in 1..Len(l) : l[i] \in IllegalCharacters
    \/ \E i \in 1..Len(l) : l[i] < 32
    \/ Len(l) > 0 /\ l[Len(l)] \in {46, 32}

\* C16: a label with an illegal character, with a control character or with
\* a dot or space at its end becomes "anonymous", every other label stays as
\* it is, and every bench function goes on with the label so obtained.
C16_InvalidLabelsBecomeAnonymous ==
    Entered =>
       LET given == IF ana_in.entry \in LabeledEntryPoints
                      THEN ana_in.label ELSE Anonymous
       IN /\ InvalidLabel(given) => ana_ret.label = Anonymous
          /\ ~InvalidLabel(given) => ana_ret.label = given
          /\ ~InvalidLabel(ana_ret.label)

C16_Witness ==
    /\ Entered
    /\ ana_in.entry = "bench_with_setup_labeled"
    /\ ana_in.label = <<97, 46>>
    /\ ana_ret.label = Anonymous

RunningWithSetup == bench # NoValue /\ bench.with_setup /\ run_st # NoValue

\* The calls of the samples that are finished
FinishedCalls == SeqSum(SubSeq(iters.iters, 1, run_st.idx - 1))

\* C17: in run_with_setup no call of setup falls between the start and the
\* stop of the timer; a sample of n iterations calls setup n times and the
\* work n times, every call of the work takes another output of setup, and
\* the sample's time is the time of the calls of the work.
C17_SetupOutsideTiming ==
    RunningWithSetup =>
       /\ \A k \in 1..Len(run_st.times) :
             run_st.times[k] = iters.iters[k] * bench.cost
       /\ run_st.start # NoValue =>
             /\ clock - run_st.start.val = run_st.done * bench.cost
             /\ Len(run_st.inputs) + run_st.done = it_count
             /\ calls.setup_run = FinishedCalls + it_count
       /\ calls.run = FinishedCalls + run_st.done
       /\ calls.setup_run = FinishedCalls + Len(run_st.inputs) + run_st.done
       /\ run_st.consumed = [k \in 1..calls.run |-> k]
       /\ Len(run_st.consumed) <= calls.setup_run
       /\ run_st.idx > Len(iters.iters) =>
             /\ calls.setup_run = SeqSum(iters.iters)
             /\ calls.run = SeqSum(iters.iters)

C17_Witness ==
    /\ RunningWithSetup
    /\ run_st.idx > Len(iters.iters)
    /\ bench.cost = 1
    /\ Len(iters.iters) = 2
    /\ calls.setup_run = SeqSum(iters.iters)
    /\ calls.run = SeqSum(iters.iters)
    /\ run_st.times = [k \in 1..2 |-> iters.iters[k]]

\* C18: after a write attempt, whatever step of it failed, the label's
\* current slot holds the complete data that was current before or the
\* complete new data; a label that had a current result still has one.
C18_RotationIsAtomic ==
    Writes >= 1 =>
       LET new == ser_sampling_data(LastWrite.data) IN
       IF CURRENT_SAMPLE \in DOMAIN LastWrite.before
       THEN /\ CURRENT_SAMPLE \in DOMAIN StoredDir
            /\ StoredDir[CURRENT_SAMPLE] \in {LastWrite.before[CURRENT_SAMPLE], new}
       ELSE CURRENT_SAMPLE \in DOMAIN StoredDir => StoredDir[CURRENT_SAMPLE] = new

\* C19: an invocation with dump_results_to_disk = false neither reads nor
\* writes the store and leaves the slots of every label as they are; one with
\* dump_results_to_disk = true reads the label's current slot and then writes
\* the new result.
C19_DumpDecidesStoreAccess ==
    [][/\ (pc # "idle" /\ ~bench.cfg.dump_results_to_disk) =>
             /\ disk' = disk
             /\ \A i \in 1..Len(trace') : trace'[i] \notin {"read", "write"}
       /\ (pc' \in {"done", "crashed"} /\ bench'.cfg.dump_results_to_disk) =>
             /\ Len(trace') >= 2
             /\ SubSeq(trace', Len(trace') - 1, Len(trace')) = <<"read", "write">>
             /\ report'.read # NoValue
             /\ report'.wrote # NoValue]_vars

Serialized == ser_stage = "serialized"

\* Byte j (from 1) of the little-endian bytes of v
LeByte(v, j) == (v \div (256 ^ (j - 1))) % 256

\* The width bytes of ser_buf after the first offset ones are v, little-endian
\* (the values of the model are below 2^24: the bytes after the third are 0).
HoldsLe(offset, width, v) ==
    \A j \in 1..width :
       ser_buf[offset + j] = IF j <= 3 THEN LeByte(v, j) ELSE 0

\* C20: the output is the number N of samples in 8 bytes, the N iteration
\* counts in 8 bytes each, then the elapsed times in 16 bytes each, all
\* little-endian and in order; with N samples and N times it is 8 + 8N + 16N
\* bytes long.
C20_Layout ==
    Serialized =>
       LET N == Len(ser_in.samples)
           M == Len(ser_in.times)
       IN /\ Len(ser_buf) = 8 + 8 * N + 16 * M
          /\ HoldsLe(0, 8, N)
          /\ \A k \in 1..N : HoldsLe(8 + 8 * (k - 1), 8, ser_in.samples[k])
          /\ \A k \in 1..M : HoldsLe(8 + 8 * N + 16 * (k - 1), 16, ser_in.times[k])
          /\ N = M => Len(ser_buf) = 8 + 8 * N + 16 * N

C20_Witness ==
    /\ Serialized
    /\ ser_in = SamplingData(<<258, 1>>, <<66051, 0>>)
    /\ Len(ser_buf) = 56
    /\ SubSeq(ser_buf, 1, 12) = <<2, 0, 0, 0, 0, 0, 0, 0, 2, 1, 0, 0>>
    /\ SubSeq(ser_buf, 25, 28) = <<3, 2, 1, 0>>

TValued == ana_in.fn = "calculate_t_value" /\ ana_ret # NoValue

SumOfSquares(q) ==
    IF q = <<>> THEN Rat(0, 1) ELSE SumOf([i \in 1..Len(q) |-> f64_mul(q[i], q[i])])

\* The variance of q with the divisor n - 1, from the sums of q and of its
\* squares: (sum of x^2 - (sum of x)^2 / n) / (n - 1), for n >= 2
SampleVariance(q) ==
    f64_div_int(f64_sub(SumOfSquares(q),
                        f64_div_int(f64_mul(SumOf(q), SumOf(q)), Len(q))),
                Len(q) - 1)

MeanOf(q) == f64_div_int(SumOf(q), Len(q))

\* var_a / len_a + var_b / len_b
WelchDenominator(a, b) ==
    f64_add(f64_div_int(SampleVariance(a), Len(a)),
            f64_div_int(SampleVariance(b), Len(b)))

RECURSIVE DecimalsOf(_, _, _)
\* floor(10^k * r / d) for 0 <= r < d
DecimalsOf(r, d, k) ==
    IF k = 0 THEN 0
    ELSE ((r * 10) \div d) * (10 ^ (k - 1)) + DecimalsOf((r * 10) % d, d, k - 1)

\* floor(10^6 * x) for a fraction x >= 0
Millionths(x) ==
    (x.num \div x.den) * 1000000 + DecimalsOf(x.num % x.den, x.den, 6)

\* C21: the t value is (mean_a - mean_b) / sqrt(var_a / len_a + var_b / len_b)
\* with variances of the divisor n - 1; the samples of the analysis test give
\* -2.248 within 0.001.  A t value is kept as t * |t|: it is negative and its
\* square lies between 2.247^2 and 2.249^2.
C21_WelchT ==
    TValued =>
       LET a == ana_in.sample_a
           b == ana_in.sample_b
       IN /\ (Len(a) >= 2 /\ Len(b) >= 2 /\ WelchDenominator(a, b).num > 0) =>
               LET diff == f64_sub(MeanOf(a), MeanOf(b))
                   square == f64_div(f64_mul(diff, diff), WelchDenominator(a, b))
               IN /\ IsRat(ana_ret)
                  /\ ana_ret = IF diff.num < 0 THEN Rat(-square.num, square.den)
                               ELSE square
          /\ (Len(a) < 2 \/ Len(b) < 2) => ana_ret = NaN
          /\ (a = Hundredths(TestSampleA) /\ b = Hundredths(TestSampleB)) =>
               /\ IsRat(ana_ret)
               /\ ana_ret.num < 0
               /\ Millionths(Rat(-ana_ret.num, ana_ret.den)) > 5049009
               /\ Millionths(Rat(-ana_ret.num, ana_ret.den)) < 5058001

C21_Witness ==
    /\ TValued
    /\ ana_in.sample_a = Hundredths(TestSampleA)
    /\ ana_in.sample_b = Hundredths(TestSampleB)
    /\ ana_ret = Rat(-34473771, 6822571)

BothDone == writers # NoValue /\ \A w \in Writers : writers.of[w].pc = "done"

FsWorks == [dir |-> TRUE, meta |-> TRUE, rename |-> TRUE, write |-> "ok"]

\* The label's directory after try_write of first's data and then of second's
OneAfterTheOther(first, second) ==
    LET store == [l \in StoreLabels |-> IF l = TestLabel THEN writers.found ELSE EmptyDir]
        a == try_write(store, TestLabel, writers.of[first].data,
                       CURRENT_SAMPLE, OLD_SAMPLE, FsWorks).disk
    IN try_write(a, TestLabel, writers.of[second].data,
                 CURRENT_SAMPLE, OLD_SAMPLE, FsWorks).disk[TestLabel]

\* All steps of first come before all steps of second.
RanInTurn(first, second) ==
    \A i, j \in 1..Len(writers.steps) :
        (writers.steps[i] = first /\ writers.steps[j] = second) => i < j

\* The writer found the current file and then failed to move it.
RenameFailed(w) == writers.of[w].moved = Some(FALSE)

\* C22: try_write takes no lock, and the steps of two writers of one label
\* interleave freely.  Two writes one after the other leave the later data
\* in the current slot and the earlier in the old slot; when a writer's
\* rename fails because the other writer has moved the current file, both
\* writes end with the old slot still holding what was current before either
\* of them, which is the result of neither order.
C22_UnlockedWritersInterleave ==
    BothDone =>
       /\ \A first, second \in Writers :
            (first # second /\ RanInTurn(first, second)) =>
               disk[TestLabel] = OneAfterTheOther(first, second)
       /\ \A w \in Writers :
            RenameFailed(w) =>
               /\ disk[TestLabel][OLD_SAMPLE] = writers.found[CURRENT_SAMPLE]
               /\ disk[TestLabel][CURRENT_SAMPLE] \in {writers.of[v].data : v \in Writers}
               /\ disk[TestLabel] # OneAfterTheOther(1, 2)
               /\ disk[TestLabel] # OneAfterTheOther(2, 1)

C22_Witness ==
    /\ BothDone
    /\ RenameFailed(2)
    /\ writers.of[1].data # writers.of[2].data
    /\ disk[TestLabel] \notin {OneAfterTheOther(1, 2), OneAfterTheOther(2, 1)}
    /\ disk[TestLabel][OLD_SAMPLE] = ser_sampling_data(EarlierData)

Resampled == ana_in.fn = "resample" /\ ana_ret # NoValue

Pool == {ana_in.sample_a[i] : i \in 1..Len(ana_in.sample_a)}
          \cup {ana_in.sample_b[i] : i \in 1..Len(ana_in.sample_b)}

\* C27: resample returns `times` t values; each is the t value of |a| + |b|
\* values drawn from a ++ b, any value any number of times, by indexes that
\* are all within a ++ b; the first |a| drawn values are the first group and
\* the other |b| the second.
C27_ResampleDrawsFromThePool ==
    Resampled =>
       /\ ana_ret # Panic("index out of bounds")
       /\ Len(ana_ret.distributions) = ana_in.times
       /\ Len(ana_ret.samples) = ana_in.times
       /\ \A k \in 1..ana_in.times :
            LET sample == ana_ret.samples[k]
                a_len == Len(ana_in.sample_a)
            IN /\ Len(sample) = a_len + Len(ana_in.sample_b)
               /\ \A i \in 1..Len(sample) : sample[i] \in Pool
               /\ ana_ret.distributions[k] =
                    calculate_t_value([i \in 1..a_len |-> sample[i]],
                                      [i \in 1..Len(ana_in.sample_b) |->
                                         sample[a_len + i]])

\* Two resamples of two and two values; one draws a value twice, and has a t.
C27_Witness ==
    /\ Resampled
    /\ ana_in.times = 2
    /\ ana_in.sample_a = <<Rat(1, 1), Rat(2, 1)>>
    /\ ana_in.sample_b = <<Rat(9, 2), Rat(1, 1)>>
    /\ ana_in.rng[1] = 1000005
    /\ ana_ret.samples[1] = <<Rat(2, 1), Rat(1, 1), Rat(2, 1), Rat(1, 1)>>
    /\ ana_ret.distributions[1] = Rat(0, 1)

MedianTaken == ana_in.fn = "calculate_median" /\ ana_ret # NoValue

\* How many times v is in q
TimesIn(q, v) == Cardinality({i \in 1..Len(q) : q[i] = v})

\* How many values of q come before v, and how many are v or come before it
Before(q, v) == Cardinality({i \in 1..Len(q) : q[i] # v /\ total_cmp_le(q[i], v)})

UpTo(q, v) == Cardinality({i \in 1..Len(q) : total_cmp_le(q[i], v)})

\* C28: calculate_median sorts the values in ascending order and returns the
\* one at index floor(len / 2) of the sorted values, which is the middle one
\* of an odd number of values and the upper of the two middle ones of an even
\* number, one of the values as it is; of no values it returns 0.
C28_MedianIsUpperMiddle ==
    MedianTaken =>
       LET sample == ana_in.sample
           sorted == ana_ret.sample
           len == Len(sample)
       IN /\ Len(sorted) = len
          /\ \A i \in 1..len : TimesIn(sorted, sample[i]) = TimesIn(sample, sample[i])
          /\ \A i \in 1..(len - 1) : total_cmp_le(sorted[i], sorted[i + 1])
          /\ len = 0 => ana_ret.median = Rat(0, 1)
          /\ len > 0 =>
               /\ \E i \in 1..len : sample[i] = ana_ret.median
               /\ Before(sample, ana_ret.median) <= len \div 2
               /\ UpTo(sample, ana_ret.median) >= len \div 2 + 1
               /\ ana_ret.median = sorted[len \div 2 + 1]

\* Two values out of order: the median is the greater one.
C28_Witness ==
    /\ MedianTaken
    /\ ana_in.sample = <<Rat(2, 1), Rat(1, 1)>>
    /\ ana_ret.sample = <<Rat(1, 1), Rat(2, 1)>>
    /\ ana_ret.median = Rat(2, 1)

TimingCompared == ana_in.fn = "compare_timing_data" /\ ana_ret # NoValue

\* The mean time of an iteration, new minus old, as a multiple of 1 / (both
\* iteration counts)
MeanIncrease ==
    ana_in.data.elapsed * ana_in.old.iterations
      - ana_in.old.elapsed * ana_in.data.iterations

\* 5 percent of the old mean, as the same multiple
FivePercent == 5 * ana_in.old.elapsed * ana_in.data.iterations

\* C29: in the comparison of a timing with the stored one, a mean time per
\* iteration that is higher by 5 percent or more is Worse, one that is lower
\* by 5 percent or more is Better, and a smaller change is Same.
C29_SlowerTimingIsWorse ==
    TimingCompared =>
       /\ MeanIncrease * 100 >= FivePercent => ana_ret.comparison = "Worse"
       /\ MeanIncrease * 100 <= -FivePercent => ana_ret.comparison = "Better"
       /\ (Abs(MeanIncrease) * 100 < FivePercent) => ana_ret.comparison = "Same"

(***************************************************************************)
(* Claims about run_warm_up (under WarmUpSpec and WarmUpLiveSpec).         *)
(***************************************************************************)
WarmUpReturned == warm # NoValue /\ warm.pc = "returned"

\* 2^k - 1 calls are made by the batches of 1, 2, ..., 2^(k-1) calls
CallsOfBatches(k) == 2 ^ k - 1

\* C23: run_warm_up runs batches of 1, 2, 4, ... calls, adds each batch's size
\* to iterations and its time to elapsed, and returns after the first batch
\* at whose end elapsed >= warmup_time; when the time is the time of the calls
\* of a constant cost alone, it returns 2^k - 1 iterations for the least
\* k >= 1 with (2^k - 1) * cost >= warmup_time, and elapsed = iterations * cost.
C23_WarmUpDoubles ==
    warm # NoValue =>
       /\ \E k \in 0..RunIterationsBits :
            /\ warm.iterations = CallsOfBatches(k)
            /\ warm.run_iterations \in {wrapping_mul(2 ^ k, 1), 0}
       /\ warm.elapsed = warm.iterations * warm.cost + warm.timer
       /\ warm.pc = "loop" => (warm.iterations = 0 \/ warm.elapsed < warm.warmup_time)
       /\ warm.pc = "returned" =>
            /\ warm.elapsed >= warm.warmup_time
            /\ warm.iterations = 1 \/ warm.before < warm.warmup_time
            /\ warm.timer = 0 =>
                 \E k \in 1..RunIterationsBits :
                    /\ warm.iterations = CallsOfBatches(k)
                    /\ warm.elapsed = warm.iterations * warm.cost
                    /\ CallsOfBatches(k) * warm.cost >= warm.warmup_time
                    /\ \A j \in 1..(k - 1) :
                         CallsOfBatches(j) * warm.cost < warm.warmup_time

C23_Witness ==
    /\ WarmUpReturned
    /\ warm.timer = 0
    /\ warm.cost = 1
    /\ warm.warmup_time = 10
    /\ warm.iterations = 15
    /\ warm.elapsed = 15

RunningWithoutSetup == pc = "run" /\ ~bench.with_setup

Calls(n) == [j \in 1..n |-> "call"]

RECURSIVE WindowsOf(_, _)
\* The first i samples of the schedule, each as one window of the timer:
\* a start, the sample's calls, a stop
WindowsOf(sample_sizes, i) ==
    IF i = 0 THEN <<>>
    ELSE WindowsOf(sample_sizes, i - 1) \o <<"start">> \o Calls(sample_sizes[i])
           \o <<"stop">>

\* C25: run takes the scheduled counts in order and calls the work exactly n
\* times between one start and one stop of the timer for each count n: the
\* calls are sum(schedule) in all, none is outside a window, and a window
\* starts only after the one before has stopped.
C25_RunTimesEachSample ==
    /\ RunningWithoutSetup =>
         /\ run_st.events =
              WindowsOf(iters.iters, run_st.idx - 1)
                \o (IF run_st.start # NoValue
                    THEN <<"start">> \o Calls(run_st.done) ELSE <<>>)
         /\ run_st.start = NoValue => run_st.done = 0
         /\ run_st.idx <= Len(iters.iters) => run_st.done <= it_count
         /\ Len(run_st.times) = run_st.idx - 1
         /\ \A i \in 1..Len(run_st.times) :
              run_st.times[i] = iters.iters[i] * bench.cost
         /\ calls.run = SeqSum(SubSeq(iters.iters, 1, run_st.idx - 1)) + run_st.done
    /\ (sampling_data # NoValue /\ ~bench.with_setup) =>
         /\ calls.run = SeqSum(iters.iters)
         /\ sampling_data.samples = iters.iters
         /\ sampling_data.times = [i \in 1..Len(iters.iters) |-> iters.iters[i] * bench.cost]

\* A run of more than one sample, one of more than one call, has returned.
C25_Witness ==
    /\ sampling_data # NoValue
    /\ ~bench.with_setup
    /\ bench.cost > 0
    /\ Len(iters.iters) > 1
    /\ \E i \in 1..Len(iters.iters) : iters.iters[i] > 1
    /\ calls.run = SeqSum(iters.iters)

(***************************************************************************)
(* Claims about the timed iterator (under TimedSpec).                      *)
(***************************************************************************)
Drained == timed.nones > 0

\* C30: a TimedIterator returns the items of the wrapped iterator as they are
\* and in their order, counts one iteration for each, and dumps its
\* TimingData exactly once, when the wrapped iterator is drained; a persisted
\* one reads the store once and writes it once, whatever calls of next() are
\* made, also after the iterator is drained.
C30_ReportsExactlyOnce ==
    timed # NoValue =>
       /\ timed.yielded \o timed.inner = timed.given
       /\ timed.iterations = Len(timed.yielded)
       /\ Len(timed.reports) = (IF Drained THEN 1 ELSE 0)
       /\ \A i \in 1..Len(timed.reports) :
            timed.reports[i].data.iterations = Len(timed.given)
       /\ timed.reads = (IF timed.persisted THEN Len(timed.reports) ELSE 0)
       /\ timed.writes = (IF timed.persisted THEN Len(timed.reports) ELSE 0)

====
